---- MODULE Spec2Model ----
(***************************************************************************)
(* A model of degenbot's UniswapCurveCycle arbitrage helper and of the     *)
(* pool helpers it quotes (Uniswap V2, Uniswap V3, Curve StableSwap).      *)
(*                                                                         *)
(* Amounts are small integers.  Two quantities of the program cannot be    *)
(* carried at their real size and are scaled, which is said where they     *)
(* are defined: the float64 significand (FLOAT_MANT_DIG) and the Uniswap   *)
(* V3 tick geometry (WORD_SIZE, MIN_TICK, MAX_TICK).                       *)
(***************************************************************************)
EXTENDS Integers, Sequences, FiniteSets, TLC

VARIABLES
    swap_pools,       \* UniswapCurveCycle.swap_pools (constructor argument)
    input_token,      \* UniswapCurveCycle.input_token (constructor argument)
    max_input,        \* UniswapCurveCycle.max_input
    cycle_status,     \* "new", "constructed", or the exception __init__ raised
    swap_vectors,     \* UniswapCurveCycle._swap_vectors
    pool_states,      \* UniswapCurveCycle.pool_states (cache written by notify)
    subscribers,      \* per pool: is the cycle in pool._subscribers
    v2_reserves,      \* per V2 pool: <<reserves_token0, reserves_token1>>
    curve_balances,   \* CurveStableswapPool.balances
    curve_state,      \* CurveStableswapPool.state.balances (which list it is),
                      \* update_block, and the number of updates made
    curve_ramp,       \* CurveStableswapPool initial_/future_a_coefficient(_time), or Nothing
    block_timestamp,  \* timestamp of the chain's latest block
    v3_pool,          \* V3LiquidityPool: _sparse_bitmap and the fields of .state
    v3_update,        \* V3LiquidityPool: _update_block, _pool_state_archive, the
                      \* liquidityGross written, _notify_subscribers calls made,
                      \* _state_lock never released, and the latest update call
    pc,               \* position of calculate(): "idle", "submitted", "probing", "done", "hung"
    override_state,   \* the override_state argument of calculate()
    state_overrides,  \* _calculate's state_overrides (result of _sort_overrides)
    nprobes,          \* number of calls of arb_profit made by minimize_scalar
    opt_x,            \* int(x) of the optimizer's best point so far (opt.x)
    opt_fun,          \* arb_profit at the best point so far (opt.fun)
    all_failed,       \* every probe so far ended with token_out_quantity = 0
    last_probe,       \* the legs quoted by the latest arb_profit call
    build,            \* the _build_amounts_out run of this calculation
    outcome,          \* what calculate() did: "none", "result", or an exception
    result,           \* the ArbitrageCalculationResult returned
    quote,            \* the latest pricing call made on a pool directly
    with_pool,        \* the calculation was started by calculate_with_pool()
    executor,         \* the tasks submitted to the executor, in order
    payloads,         \* the latest generate_payloads call: arguments and outcome
    notified          \* the latest notify(publisher) call: publisher and exception

cycle_vars == <<swap_pools, input_token, max_input, cycle_status, swap_vectors,
                pool_states, subscribers>>
update_vars == <<curve_state, v3_update>>
pool_vars  == <<v2_reserves, curve_balances, v3_pool, update_vars>>
calc_vars  == <<pc, override_state, state_overrides, nprobes, opt_x, opt_fun,
                all_failed, last_probe, build, outcome, result>>
call_vars  == <<quote, with_pool, executor, payloads, notified>>
chain_vars == <<curve_ramp, block_timestamp>>
vars == <<swap_pools, input_token, max_input, cycle_status, swap_vectors,
          pool_states, subscribers, v2_reserves, curve_balances, v3_pool, curve_state,
          v3_update,
          pc, override_state, state_overrides, nprobes, opt_x, opt_fun,
          all_failed, last_probe, build, outcome, result, quote,
          with_pool, executor, payloads, notified, curve_ramp, block_timestamp>>

\* Python's None.  An exception slot holds the string; an optional object is
\* the record NoneObj; an optional number or dictionary is a tuple, <<>> for
\* None and <<v>> for the value v.
None == "None"
NoneObj == [type |-> "NoneType"]
Nothing == <<>>
Some(v) == <<v>>
IsNothing(o) == Len(o) = 0
Value(o) == o[1]

(***************************************************************************)
(* Bounds of the model.                                                    *)
(***************************************************************************)
MaxInput  == 12     \* the max_input handed to the constructor
MaxProbes == 2      \* calls of arb_profit per minimize_scalar run
MaxQuote  == 2      \* direct pricing calls take quantities -MaxQuote..MaxQuote
MaxTimestamp == 2   \* the latest block's timestamp runs over 0..MaxTimestamp
MaxUpdates == 3     \* update calls made on a pool

(***************************************************************************)
(* Small helpers.                                                          *)
(***************************************************************************)
Abs(n) == IF n < 0 THEN -n ELSE n
Min(a, b) == IF a < b THEN a ELSE b
CeilDiv(a, b) == (a + b - 1) \div b
RECURSIVE Pow2(_)
Pow2(n) == IF n = 0 THEN 1 ELSE 2 * Pow2(n - 1)
IndexOf(seq, e) == CHOOSE k \in 1..Len(seq) : seq[k] = e /\ \A m \in 1..(k - 1) : seq[m] # e
InSeq(seq, e) == \E k \in 1..Len(seq) : seq[k] = e
Range(seq) == {seq[k] : k \in 1..Len(seq)}

(***************************************************************************)
(* Tokens and pools.  Four tokens; two V2 pools, one V3 pool and one       *)
(* three-coin Curve pool, as in tests/arbitrage/test_uniswap_curve_cycle.  *)
(***************************************************************************)
Tokens == {"WETH", "DAI", "USDC", "USDT"}

V2Pools    == {"v2_weth_dai", "v2_weth_usdt"}
V3Pools    == {"v3_weth_usdt"}
CurvePools == {"curve_pool"}
\* a Curve metapool: one coin paired with the LP token of its base pool.  It
\* takes part in no cycle explored; the swap amounts of its legs are built.
CurveMetapools == {"curve_metapool"}
Pools      == V2Pools \cup V3Pools \cup CurvePools

\* pool.tokens: (token0, token1) of a two-token pool, the coins of a Curve pool
PoolTokens(pool) ==
    CASE pool = "v2_weth_dai"   -> <<"DAI", "WETH">>
      [] pool = "v2_weth_usdt"  -> <<"WETH", "USDT">>
      [] pool = "v3_weth_usdt"  -> <<"WETH", "USDT">>
      [] pool = "curve_metapool" -> <<"FRAX", "3CRV">>
      [] pool = "curve_pool" -> <<"DAI", "USDC", "USDT">>

Token0(pool) == PoolTokens(pool)[1]
Token1(pool) == PoolTokens(pool)[2]

\* the isinstance / match dispatch of the cycle
PoolType(pool) ==
    CASE pool \in V2Pools    -> "LiquidityPool"
      [] pool \in V3Pools    -> "V3LiquidityPool"
      [] pool \in CurvePools \cup CurveMetapools -> "CurveStableswapPool"

\* CurveStableswapPool.is_metapool and .tokens_underlying; the base pool is
\* the three-coin pool
is_metapool(pool) == pool \in CurveMetapools
tokens_underlying(pool) == <<PoolTokens(pool)[1]>> \o PoolTokens("curve_pool")

(***************************************************************************)
(* UniswapCurveCycle.__init__: the swap vectors.                           *)
(* Python indices are 0-based: pool i of the source is swap_pools[i + 1].  *)
(***************************************************************************)
UniswapPoolSwapVector(tin, tout, zfo) ==
    [kind |-> "UniswapPoolSwapVector", token_in |-> tin, token_out |-> tout,
     zero_for_one |-> zfo]

CurveStableSwapPoolVector(tin, tout, iin, iout) ==
    [kind |-> "CurveStableSwapPoolVector", token_in |-> tin, token_out |-> tout,
     token_in_index |-> iin, token_out_index |-> iout]

\* set(pool.tokens).intersection(next_pool.tokens)
SharedTokens(pool, next_pool) == Range(PoolTokens(pool)) \cap Range(PoolTokens(next_pool))

\* VectorAt answering zero_for_one = TRUE for a token_in that is token1
VectorAt_AlwaysZeroForOne(pools, i, tin_match) ==
    LET pool == pools[i + 1] IN
    IF PoolType(pool) \in {"LiquidityPool", "V3LiquidityPool"}
    THEN IF tin_match = Token0(pool)
         THEN [err |-> None, vec |-> UniswapPoolSwapVector(Token0(pool), Token1(pool), TRUE)]
         ELSE IF tin_match = Token1(pool)
         THEN [err |-> None, vec |-> UniswapPoolSwapVector(Token1(pool), Token0(pool), TRUE)]
         ELSE [err |-> "ValueError", vec |-> NoneObj]
    ELSE \* CurveStableswapPool
         IF i # 1
         THEN [err |-> "ValueError", vec |-> NoneObj]
         ELSE IF i + 1 >= Len(pools)
         THEN [err |-> "IndexError", vec |-> NoneObj]            \* self.swap_pools[i + 1]
         ELSE IF Cardinality(SharedTokens(pool, pools[i + 2])) # 1
         THEN [err |-> "AssertionError", vec |-> NoneObj]     \* assert len(shared_tokens) == 1
         ELSE LET tout == CHOOSE t \in SharedTokens(pool, pools[i + 2]) : TRUE IN
              IF ~InSeq(PoolTokens(pool), tin_match)
              THEN [err |-> "ValueError", vec |-> NoneObj]    \* pool.tokens.index(token_in)
              ELSE [err |-> None,
                    vec |-> CurveStableSwapPoolVector(
                                tin_match, tout,
                                IndexOf(PoolTokens(pool), tin_match) - 1,
                                IndexOf(PoolTokens(pool), tout) - 1)]

\* One iteration of the loop of __init__ for pool i, with the token_out left by
\* the previous iteration (tin_match is input_token when i = 0).
\* Returns [err |-> exception or None, vec |-> the appended vector].
VectorAt(pools, i, tin_match) ==
    LET pool == pools[i + 1] IN
    IF PoolType(pool) \in {"LiquidityPool", "V3LiquidityPool"}
    THEN IF tin_match = Token0(pool)
         THEN [err |-> None, vec |-> UniswapPoolSwapVector(Token0(pool), Token1(pool), TRUE)]
         ELSE IF tin_match = Token1(pool)
         THEN [err |-> None, vec |-> UniswapPoolSwapVector(Token1(pool), Token0(pool), FALSE)]
         ELSE [err |-> "ValueError", vec |-> NoneObj]
    ELSE \* CurveStableswapPool
         IF i # 1
         THEN [err |-> "ValueError", vec |-> NoneObj]
         ELSE IF i + 1 >= Len(pools)
         THEN [err |-> "IndexError", vec |-> NoneObj]            \* self.swap_pools[i + 1]
         ELSE IF Cardinality(SharedTokens(pool, pools[i + 2])) # 1
         THEN [err |-> "AssertionError", vec |-> NoneObj]     \* assert len(shared_tokens) == 1
         ELSE LET tout == CHOOSE t \in SharedTokens(pool, pools[i + 2]) : TRUE IN
              IF ~InSeq(PoolTokens(pool), tin_match)
              THEN [err |-> "ValueError", vec |-> NoneObj]    \* pool.tokens.index(token_in)
              ELSE [err |-> None,
                    vec |-> CurveStableSwapPoolVector(
                                tin_match, tout,
                                IndexOf(PoolTokens(pool), tin_match) - 1,
                                IndexOf(PoolTokens(pool), tout) - 1)]

\* The whole loop: [err |-> exception or None, vectors |-> tuple of vectors]
RECURSIVE DeriveFrom(_, _, _, _)
DeriveFrom(pools, i, tin_match, acc) ==
    IF i >= Len(pools) THEN [err |-> None, vectors |-> acc]
    ELSE LET r == VectorAt(pools, i, tin_match) IN
         IF r.err # None THEN [err |-> r.err, vectors |-> <<>>]
         ELSE DeriveFrom(pools, i + 1, r.vec.token_out, Append(acc, r.vec))

DeriveSwapVectors(pools, token) == DeriveFrom(pools, 0, token, <<>>)

(***************************************************************************)
(* Exceptions.  A pricing call returns [exc |-> None, out |-> quantity] or *)
(* [exc |-> the class raised, out |-> 0].                                  *)
(***************************************************************************)
Returned(n) == [exc |-> None, out |-> n]
Raised(e)   == [exc |-> e, out |-> 0]

\* degenbot.exceptions: ZeroSwapError and ZeroLiquidityError derive from
\* LiquidityPoolError; EVMRevertError and ArbitrageError do not.
IsLiquidityPoolError(e) == e \in {"LiquidityPoolError", "ZeroSwapError", "ZeroLiquidityError"}

(***************************************************************************)
(* float(n) for an integer n: round to the nearest number with             *)
(* FLOAT_MANT_DIG significant bits, ties to even.  CPython's float has 53  *)
(* significant bits (sys.float_info.mant_dig); the model carries 3, so     *)
(* that the integers above 2^3 are to the model what the integers above    *)
(* 2^53 are to the program.                                                *)
(***************************************************************************)
FLOAT_MANT_DIG == 3

RECURSIVE BitLength(_)
BitLength(n) == IF n = 0 THEN 0 ELSE 1 + BitLength(n \div 2)

FloatOfNat(n) ==
    IF BitLength(n) <= FLOAT_MANT_DIG THEN n
    ELSE LET ulp == Pow2(BitLength(n) - FLOAT_MANT_DIG)
             lo  == (n \div ulp) * ulp
             rem == n - lo
         IN  IF 2 * rem < ulp THEN lo
             ELSE IF 2 * rem > ulp THEN lo + ulp
             ELSE IF (n \div ulp) % 2 = 0 THEN lo ELSE lo + ulp

float(n) == IF n < 0 THEN -FloatOfNat(-n) ELSE FloatOfNat(n)

(***************************************************************************)
(* Uniswap V2 pool: LiquidityPool.calculate_tokens_out_from_tokens_in.     *)
(* v2_liquidity_pool.py is not among the sources; the quote is the         *)
(* constant-product formula the spec names, with the 0.3% fee.             *)
(***************************************************************************)
V2_FEE_NUMERATOR   == 3
V2_FEE_DENOMINATOR == 1000

UniswapV2PoolState(pool, r0, r1) ==
    [type |-> "UniswapV2PoolState", pool |-> pool,
     reserves_token0 |-> r0, reserves_token1 |-> r1]

V2_calculate_tokens_out_from_tokens_in(pool, reserves, token_in, token_in_quantity, override) ==
    IF token_in_quantity <= 0 THEN Raised("ZeroSwapError")
    ELSE LET r0 == IF override # NoneObj THEN override.reserves_token0 ELSE reserves[1]
             r1 == IF override # NoneObj THEN override.reserves_token1 ELSE reserves[2]
             reserves_in  == IF token_in = Token0(pool) THEN r0 ELSE r1
             reserves_out == IF token_in = Token0(pool) THEN r1 ELSE r0
             amount_in_with_fee == token_in_quantity * (V2_FEE_DENOMINATOR - V2_FEE_NUMERATOR)
             numerator   == amount_in_with_fee * reserves_out
             denominator == reserves_in * V2_FEE_DENOMINATOR + amount_in_with_fee
         IN  IF token_in \notin Range(PoolTokens(pool)) THEN Raised("ValueError")
             ELSE Returned(numerator \div denominator)

(***************************************************************************)
(* Curve StableSwap pool (CurveStableswapPool), a plain three-coin pool    *)
(* that is not a metapool and is not ramping A; the branches modelled are  *)
(* the final "else" branches of _get_dy, _get_D and _get_y, which serve    *)
(* every pool address without special treatment.                           *)
(*                                                                         *)
(* The coins have 18 decimals, so rate_multipliers[k] = 10**18 = PRECISION;*)
(* PRECISION and the rates are carried with the factor 10**18 divided out. *)
(* The pool's fee is 10**9 (10%); fee and FEE_DENOMINATOR = 10**10 are     *)
(* carried with the factor 10**9 divided out.  Both leave every quotient   *)
(* of the source unchanged.                                                *)
(***************************************************************************)
PRECISION       == 1
FEE_DENOMINATOR == 10
A_PRECISION     == 100
NEWTON_ITERATIONS == 255                  \* for _ in range(255)

N_COINS          == 3                     \* len(self.tokens)
a_coefficient    == 1                     \* self.a_coefficient
curve_fee        == 1                     \* self.fee
admin_fee        == 5                     \* self.admin_fee (5 * 10**9, half of the fee)
rate_multipliers == <<1, 1, 1>>           \* self.rate_multipliers

CurveStableswapPoolState(pool, balances) ==
    [type |-> "CurveStableswapPoolState", pool |-> pool, balances |-> balances]

\* CurveStableswapPool._A.  A pool that is not ramping has initial_ and
\* future_a_coefficient None; for one that is, _A reads the timestamp of the
\* latest block.
_A ==
    IF IsNothing(curve_ramp) THEN a_coefficient * A_PRECISION
    ELSE LET A1 == Value(curve_ramp).future_a_coefficient
             t1 == Value(curve_ramp).future_a_coefficient_time
             A0 == Value(curve_ramp).initial_a_coefficient
             t0 == Value(curve_ramp).initial_a_coefficient_time
             timestamp == block_timestamp
         IN  IF timestamp < t1
             THEN IF A1 > A0
                  THEN A0 + ((A1 - A0) * (timestamp - t0)) \div (t1 - t0)
                  ELSE A0 - ((A0 - A1) * (timestamp - t0)) \div (t1 - t0)
             ELSE A1

\* CurveStableswapPool._xp
_xp(rates, balances) == [k \in 1..Len(balances) |-> (rates[k] * balances[k]) \div PRECISION]

RECURSIVE SumSeq(_)
SumSeq(seq) == IF seq = <<>> THEN 0 ELSE Head(seq) + SumSeq(Tail(seq))

\* D_P = D; for _x in _xp: D_P = D_P * D // (_x * N_COINS)
RECURSIVE D_P_loop(_, _, _)
D_P_loop(D_P, D, xs) ==
    IF xs = <<>> THEN D_P
    ELSE D_P_loop((D_P * D) \div (Head(xs) * N_COINS), D, Tail(xs))

\* One pass of the body of the Newton loop of _get_D.  st is [exc, done, D]:
\* done when the loop has returned D, exc when the body raised.
D_step(st, S, Ann, xs) ==
    LET D     == st.D
        D_P   == D_P_loop(D, D, xs)
        denom == ((Ann - A_PRECISION) * D) \div A_PRECISION + (N_COINS + 1) * D_P
    IN  IF denom = 0 THEN [exc |-> "ZeroDivisionError", done |-> TRUE, D |-> D]
        ELSE LET Dnew == (((Ann * S) \div A_PRECISION + D_P * N_COINS) * D) \div denom IN
             [exc |-> None, done |-> Abs(Dnew - D) <= 1, D |-> Dnew]

\* n passes of the loop of _get_D, unless it returns or raises earlier
RECURSIVE D_loop(_, _, _, _, _)
D_loop(st, S, Ann, xs, n) ==
    IF st.done THEN st
    ELSE IF n = 1 THEN D_step(st, S, Ann, xs)
    ELSE LET half == D_loop(st, S, Ann, xs, n \div 2) IN
         D_loop(half, S, Ann, xs, n - n \div 2)

\* how the loop of _get_D ends: return D, or raise when 255 passes are over
D_result(st) ==
    IF st.exc # None THEN Raised(st.exc)
    ELSE IF st.done THEN Returned(st.D)
    ELSE Raised("Exception")                      \* _get_D() did not converge

\* CurveStableswapPool._get_D
_get_D(xs, amp) ==
    LET S == SumSeq(xs) IN
    IF S = 0 THEN Returned(0)
    ELSE IF \E k \in 1..Len(xs) : xs[k] = 0 THEN Raised("ZeroDivisionError")
    ELSE D_result(D_loop([exc |-> None, done |-> FALSE, D |-> S], S, amp * N_COINS, xs,
                         NEWTON_ITERATIONS))

\* One pass of the body of the Newton loop of _get_y.  st is [exc, done, y].
y_step(st, b, c, D) ==
    LET y == st.y IN
    IF 2 * y + b - D = 0 THEN [exc |-> "ZeroDivisionError", done |-> TRUE, y |-> y]
    ELSE LET ynew == (y * y + c) \div (2 * y + b - D) IN
         [exc |-> None, done |-> Abs(ynew - y) <= 1, y |-> ynew]

\* n passes of the loop of _get_y, unless it returns or raises earlier
RECURSIVE y_loop(_, _, _, _, _)
y_loop(st, b, c, D, n) ==
    IF st.done THEN st
    ELSE IF n = 1 THEN y_step(st, b, c, D)
    ELSE LET half == y_loop(st, b, c, D, n \div 2) IN
         y_loop(half, b, c, D, n - n \div 2)

\* S_ and c of _get_y: the loop over the coins other than j (0-based i, j)
RECURSIVE Sc_loop(_, _, _, _, _, _, _)
Sc_loop(k, i, j, x, xs, D, acc) ==
    IF k >= N_COINS THEN acc
    ELSE IF k = j THEN Sc_loop(k + 1, i, j, x, xs, D, acc)
    ELSE LET xk == IF k = i THEN x ELSE xs[k + 1] IN
         IF xk = 0 \/ acc.exc # None
         THEN [exc |-> "ZeroDivisionError", S_ |-> 0, c |-> 0]
         ELSE Sc_loop(k + 1, i, j, x, xs, D,
                      [exc |-> None, S_ |-> acc.S_ + xk, c |-> (acc.c * D) \div (xk * N_COINS)])

\* how the loop of _get_y ends
y_result(st) ==
    IF st.exc # None THEN Raised(st.exc)
    ELSE IF st.done THEN Returned(st.y)
    ELSE Raised("Exception")                      \* _get_y() failed to converge

\* _get_y from the end of the loop over the coins: c, b and the Newton loop
y_from_sums(sc, D, Ann) ==
    IF sc.exc # None THEN Raised(sc.exc)
    ELSE LET c == (sc.c * D * A_PRECISION) \div (Ann * N_COINS)
             b == sc.S_ + (D * A_PRECISION) \div Ann
         IN  y_result(y_loop([exc |-> None, done |-> FALSE, y |-> D], b, c, D,
                             NEWTON_ITERATIONS))

\* _get_y from the call of _get_D on; Dr is what _get_D did
y_from_D(i, j, x, xs, amp, Dr) ==
    IF Dr.exc # None THEN Dr
    ELSE y_from_sums(Sc_loop(0, i, j, x, xs, Dr.out, [exc |-> None, S_ |-> 0, c |-> Dr.out]),
                     Dr.out, amp * N_COINS)

\* CurveStableswapPool._get_y (0-based i, j)
_get_y(i, j, x, xs) ==
    IF ~(i # j /\ j >= 0 /\ j < N_COINS /\ i >= 0 /\ i < N_COINS) THEN Raised("AssertionError")
    ELSE y_from_D(i, j, x, xs, _A, _get_D(xs, _A))

\* _get_dy after the call of _get_y: dy and the fee
dy_from_y(xs, rates, j, yr) ==
    IF yr.exc # None THEN yr
    ELSE LET dy  == xs[j + 1] - yr.out - 1
             fee == (curve_fee * dy) \div FEE_DENOMINATOR
         IN  Returned(((dy - fee) * PRECISION) \div rates[j + 1])

\* CurveStableswapPool._get_dy (0-based i, j); it reads self.balances
_get_dy(balances, i, j, dx) ==
    LET rates == rate_multipliers
        xs    == _xp(rates, balances)
        x     == xs[i + 1] + ((dx * rates[i + 1]) \div PRECISION)
    IN  dy_from_y(xs, rates, j, _get_y(i, j, x, xs))

\* CurveStableswapPool.calculate_tokens_out_from_tokens_in.  The override is
\* logged and not used: the quote is made from self.balances.
Curve_calculate_tokens_out_from_tokens_in(pool, balances, token_in, token_out, token_in_quantity, override) ==
    IF token_in_quantity <= 0 THEN Raised("ZeroSwapError")
    ELSE IF ~(InSeq(PoolTokens(pool), token_in) /\ InSeq(PoolTokens(pool), token_out))
         THEN Raised("ValueError")
    ELSE IF \E k \in 1..Len(balances) : balances[k] = 0 THEN Raised("ZeroLiquidityError")
    ELSE _get_dy(balances, IndexOf(PoolTokens(pool), token_in) - 1,
                 IndexOf(PoolTokens(pool), token_out) - 1, token_in_quantity)

(***************************************************************************)
(* Uniswap V3 libraries (v3_libraries: TickBitmap, TickMath, SwapMath,     *)
(* LiquidityMath).  They are not among the sources.  The model keeps their *)
(* interfaces and their revert conditions on a scaled geometry: a bitmap   *)
(* word covers WORD_SIZE ticks (256 in Uniswap), ticks run from MIN_TICK   *)
(* to MAX_TICK (-887272..887272), the square-root price is linear in the   *)
(* tick, and moving the price by one tick across liquidity L trades L      *)
(* tokens in for L tokens out.                                             *)
(***************************************************************************)
WORD_SIZE    == 4
MIN_TICK     == -4
MAX_TICK     == 4
TICK_SPACING == 1                         \* _TICKSPACING_BY_FEE[100]
SQRT_PER_TICK == 10
SQRT_AT_ZERO  == 100

\* TickMath.getSqrtRatioAtTick
getSqrtRatioAtTick(tick) == SQRT_AT_ZERO + SQRT_PER_TICK * tick
MIN_SQRT_RATIO == getSqrtRatioAtTick(MIN_TICK)
MAX_SQRT_RATIO == getSqrtRatioAtTick(MAX_TICK)

\* TickMath.getTickAtSqrtRatio: reverts outside [MIN_SQRT_RATIO, MAX_SQRT_RATIO)
getTickAtSqrtRatio(sqrt_price) ==
    IF sqrt_price < MIN_SQRT_RATIO \/ sqrt_price >= MAX_SQRT_RATIO
    THEN Raised("EVMRevertError")
    ELSE Returned((sqrt_price - SQRT_AT_ZERO) \div SQRT_PER_TICK)

\* TickBitmap.position
position(compressed) == <<compressed \div WORD_SIZE, compressed % WORD_SIZE>>

\* V3LiquidityPool._get_tick_bitmap_position
_get_tick_bitmap_position(tick) == position(tick \div TICK_SPACING)

SetMax(S) == CHOOSE m \in S : \A n \in S : n <= m
SetMin(S) == CHOOSE m \in S : \A n \in S : m <= n

\* TickBitmap.nextInitializedTickWithinOneWord.  A bitmap is a function from
\* the known word positions to the set of bits set in the word.
nextInitializedTickWithinOneWord(tick_bitmap, tick, tick_spacing, lte) ==
    LET compressed == tick \div tick_spacing IN
    IF lte
    THEN LET pos  == position(compressed)
             word == pos[1]
             bit  == pos[2]
         IN  IF word \notin DOMAIN tick_bitmap
             THEN [exc |-> "BitmapWordUnavailableError", word |-> word,
                   tick_next |-> 0, initialized |-> FALSE]
             ELSE LET masked == {b \in tick_bitmap[word] : b <= bit} IN
                  IF masked # {}
                  THEN [exc |-> None, word |-> word, initialized |-> TRUE,
                        tick_next |-> (compressed - (bit - SetMax(masked))) * tick_spacing]
                  ELSE [exc |-> None, word |-> word, initialized |-> FALSE,
                        tick_next |-> (compressed - bit) * tick_spacing]
    ELSE LET pos  == position(compressed + 1)
             word == pos[1]
             bit  == pos[2]
         IN  IF word \notin DOMAIN tick_bitmap
             THEN [exc |-> "BitmapWordUnavailableError", word |-> word,
                   tick_next |-> 0, initialized |-> FALSE]
             ELSE LET masked == {b \in tick_bitmap[word] : b >= bit} IN
                  IF masked # {}
                  THEN [exc |-> None, word |-> word, initialized |-> TRUE,
                        tick_next |-> (compressed + 1 + (SetMin(masked) - bit)) * tick_spacing]
                  ELSE [exc |-> None, word |-> word, initialized |-> FALSE,
                        tick_next |-> (compressed + 1 + ((WORD_SIZE - 1) - bit)) * tick_spacing]

\* SwapMath.computeSwapStep.  amount_remaining >= 0 is an exact-input step,
\* amount_remaining < 0 an exact-output step.
computeSwapStep(sqrt_current, sqrt_target, liquidity, amount_remaining) ==
    LET down     == sqrt_current >= sqrt_target
        distance == Abs(sqrt_current - sqrt_target)
        full     == liquidity * distance
    IN  IF amount_remaining >= 0
        THEN IF amount_remaining >= CeilDiv(full, SQRT_PER_TICK)
             THEN [sqrt_next |-> sqrt_target, amount_in |-> CeilDiv(full, SQRT_PER_TICK),
                   amount_out |-> full \div SQRT_PER_TICK, fee_amount |-> 0]
             ELSE LET moved == (amount_remaining * SQRT_PER_TICK) \div liquidity
                      a_in  == CeilDiv(liquidity * moved, SQRT_PER_TICK)
                  IN  [sqrt_next |-> IF down THEN sqrt_current - moved ELSE sqrt_current + moved,
                       amount_in |-> a_in,
                       amount_out |-> (liquidity * moved) \div SQRT_PER_TICK,
                       fee_amount |-> amount_remaining - a_in]
        ELSE IF -amount_remaining >= full \div SQRT_PER_TICK
             THEN [sqrt_next |-> sqrt_target, amount_in |-> CeilDiv(full, SQRT_PER_TICK),
                   amount_out |-> full \div SQRT_PER_TICK, fee_amount |-> 0]
             ELSE LET moved == CeilDiv((-amount_remaining) * SQRT_PER_TICK, liquidity) IN
                  [sqrt_next |-> IF down THEN sqrt_current - moved ELSE sqrt_current + moved,
                   amount_in |-> CeilDiv(liquidity * moved, SQRT_PER_TICK),
                   amount_out |-> Min((liquidity * moved) \div SQRT_PER_TICK, -amount_remaining),
                   fee_amount |-> 0]

\* LiquidityMath.addDelta: reverts when the result leaves uint128
addDelta(x, y) == IF x + y < 0 THEN Raised("EVMRevertError") ELSE Returned(x + y)

(***************************************************************************)
(* Uniswap V3 pool (V3LiquidityPool).                                      *)
(* The pool is [sparse, liquidity, sqrt_price_x96, tick, tick_bitmap,      *)
(* tick_data]: _sparse_bitmap and the fields of self.state.  tick_data     *)
(* maps a known tick to its liquidityNet.  In a UniswapV3PoolState the     *)
(* tick_bitmap and tick_data are optional (Nothing or Some(dictionary)).   *)
(***************************************************************************)
UniswapV3PoolState(pool, liquidity, sqrt_price_x96, tick, tick_bitmap, tick_data) ==
    [type |-> "UniswapV3PoolState", pool |-> pool, liquidity |-> liquidity,
     sqrt_price_x96 |-> sqrt_price_x96, tick |-> tick,
     tick_bitmap |-> tick_bitmap, tick_data |-> tick_data]

\* What the chain holds: one position of liquidity 20 between ticks -2 and 2.
\* tickBitmap(word) and getPopulatedTicksInWord(word) answer from it.
CHAIN_TICK_DATA == (-2 :> 20) @@ (2 :> -20)
ChainBitmapAtWord(word) ==
    {_get_tick_bitmap_position(t)[2] :
        t \in {u \in DOMAIN CHAIN_TICK_DATA : _get_tick_bitmap_position(u)[1] = word}}
ChainTickDataAtWord(word) ==
    [t \in {u \in DOMAIN CHAIN_TICK_DATA : _get_tick_bitmap_position(u)[1] = word}
        |-> CHAIN_TICK_DATA[t]]

\* V3LiquidityPool._update_tick_data_at_word: writes self.tick_bitmap and
\* self.tick_data in place, unless the word is already known.
_update_tick_data_at_word(pool, word_position) ==
    IF word_position \in DOMAIN pool.tick_bitmap THEN pool
    ELSE [pool EXCEPT
            !.tick_bitmap = (word_position :> ChainBitmapAtWord(word_position)) @@ @,
            !.tick_data   = ChainTickDataAtWord(word_position) @@ @]

\* The objects a swap simulation works on: the pool, and the tick_bitmap and
\* tick_data of the override state (Nothing when the pool's own are used, in
\* which case _tick_bitmap and _tick_data are the pool's dictionaries themselves).
SwapEnv(pool, override_tick_bitmap, override_tick_data) ==
    [pool |-> pool, ov_bitmap |-> override_tick_bitmap, ov_data |-> override_tick_data]

EnvBitmap(env) == IF ~IsNothing(env.ov_bitmap) THEN Value(env.ov_bitmap) ELSE env.pool.tick_bitmap
EnvData(env)   == IF ~IsNothing(env.ov_data)   THEN Value(env.ov_data)   ELSE env.pool.tick_data

\* lines 448-454: a sparse pool fetches the word of the tick found when the
\* bitmap in use lacks it
FetchWordOfNext(env, tick_next_word) ==
    IF env.pool.sparse /\ tick_next_word \notin DOMAIN EnvBitmap(env)
    THEN [env EXCEPT !.pool = _update_tick_data_at_word(@, tick_next_word)]
    ELSE env

\* lines 432-446: the handler of BitmapWordUnavailableError
HandleMissingWord(env, missing_word) ==
    IF env.pool.sparse
    THEN [env EXCEPT !.pool = _update_tick_data_at_word(@, missing_word)]
    ELSE IF ~IsNothing(env.ov_bitmap)
    THEN [env EXCEPT !.ov_bitmap = Some((missing_word :> {}) @@ Value(@))]
    ELSE [env EXCEPT !.pool.tick_bitmap = (missing_word :> {}) @@ @]

\* the else branch of the try: the lookup answered
TickFound(env, found) ==
    [exc |-> None, tick_next |-> found.tick_next, initialized |-> found.initialized,
     env |-> FetchWordOfNext(env, _get_tick_bitmap_position(found.tick_next)[1])]

\* The lookup after the handler has run.  A handler that did not put the
\* word into the bitmap in use leaves the loop repeating the same lookup.
TickSearchAgain(env, again) ==
    IF again.exc # None
    THEN [exc |-> "diverges", tick_next |-> 0, initialized |-> FALSE, env |-> env]
    ELSE TickFound(env, again)

TickSearchRetry(env, tick, zeroForOne) ==
    TickSearchAgain(env, nextInitializedTickWithinOneWord(EnvBitmap(env), tick,
                                                          TICK_SPACING, zeroForOne))

TickSearchFirst(env, tick, zeroForOne, first) ==
    IF first.exc = None THEN TickFound(env, first)
    ELSE TickSearchRetry(HandleMissingWord(env, first.word), tick, zeroForOne)

\* The "while True" tick search of _uniswap_v3_pool_swap (lines 424-456).
\* Returns [exc, tick_next, initialized, env]; exc = "diverges" when the loop
\* repeats the same failing lookup forever.
TickSearch(env, tick, zeroForOne) ==
    TickSearchFirst(env, tick, zeroForOne,
                    nextInitializedTickWithinOneWord(EnvBitmap(env), tick,
                                                     TICK_SPACING, zeroForOne))

SwapFailed(e, env) == [exc |-> e, amount_specified_remaining |-> 0, amount_calculated |-> 0, env |-> env]

ClampTick(tick_next) ==
    IF tick_next < MIN_TICK THEN MIN_TICK
    ELSE IF tick_next > MAX_TICK THEN MAX_TICK
    ELSE tick_next

\* the price the step aims at: the next tick's, or the limit when that is nearer
StepTarget(sqrt_price_next_x96, sqrt_price_limit_x96, zeroForOne) ==
    IF (IF zeroForOne THEN sqrt_price_next_x96 < sqrt_price_limit_x96
                      ELSE sqrt_price_next_x96 > sqrt_price_limit_x96)
    THEN sqrt_price_limit_x96 ELSE sqrt_price_next_x96

\* SwapState after the step's amounts are booked (lines 476-491)
BookStep(st, step, exactInput) ==
    [st EXCEPT
        !.amount_specified_remaining =
            IF exactInput THEN @ - (step.amount_in + step.fee_amount) ELSE @ + step.amount_out,
        !.amount_calculated =
            IF exactInput THEN @ - step.amount_out ELSE @ + step.amount_in + step.fee_amount,
        !.sqrt_price_x96 = step.sqrt_next]

RECURSIVE SwapLoop(_, _, _, _, _)

\* lines 498-507: the tick transition when the price reached an initialized tick
CrossTick(env, st1, tick_next, zeroForOne, sqrt_price_limit_x96, exactInput, liq) ==
    IF liq.exc # None THEN SwapFailed(liq.exc, env)
    ELSE SwapLoop(env,
                  [st1 EXCEPT !.liquidity = liq.out,
                              !.tick = IF zeroForOne THEN tick_next - 1 ELSE tick_next],
                  zeroForOne, sqrt_price_limit_x96, exactInput)

\* lines 509-512: the price moved inside the tick range
Retick(env, st1, zeroForOne, sqrt_price_limit_x96, exactInput, t) ==
    IF t.exc # None THEN SwapFailed(t.exc, env)
    ELSE SwapLoop(env, [st1 EXCEPT !.tick = t.out],
                  zeroForOne, sqrt_price_limit_x96, exactInput)

\* lines 493-512: what follows the step
AfterStep(env, st, st1, tick_next, initialized, zeroForOne, sqrt_price_limit_x96, exactInput) ==
    IF st1.sqrt_price_x96 = getSqrtRatioAtTick(tick_next)
    THEN IF initialized
         THEN IF tick_next \notin DOMAIN EnvData(env)
              THEN SwapFailed("KeyError", env)            \* _tick_data[tick_next]
              ELSE CrossTick(env, st1, tick_next, zeroForOne, sqrt_price_limit_x96, exactInput,
                             addDelta(st.liquidity,
                                      IF zeroForOne THEN -EnvData(env)[tick_next]
                                      ELSE EnvData(env)[tick_next]))
         ELSE SwapLoop(env, [st1 EXCEPT !.tick = IF zeroForOne THEN tick_next - 1 ELSE tick_next],
                       zeroForOne, sqrt_price_limit_x96, exactInput)
    ELSE IF st1.sqrt_price_x96 # st.sqrt_price_x96
    THEN Retick(env, st1, zeroForOne, sqrt_price_limit_x96, exactInput,
                getTickAtSqrtRatio(st1.sqrt_price_x96))
    ELSE SwapLoop(env, st1, zeroForOne, sqrt_price_limit_x96, exactInput)

\* lines 458-491: clamp the tick found, compute the step and book it
StepTo(env, st, tick_next, initialized, zeroForOne, sqrt_price_limit_x96, exactInput) ==
    AfterStep(env, st,
              BookStep(st,
                       computeSwapStep(st.sqrt_price_x96,
                                       StepTarget(getSqrtRatioAtTick(tick_next),
                                                  sqrt_price_limit_x96, zeroForOne),
                                       st.liquidity, st.amount_specified_remaining),
                       exactInput),
              tick_next, initialized, zeroForOne, sqrt_price_limit_x96, exactInput)

AfterSearch(st, zeroForOne, sqrt_price_limit_x96, exactInput, search) ==
    IF search.exc # None THEN SwapFailed(search.exc, search.env)
    ELSE StepTo(search.env, st, ClampTick(search.tick_next), search.initialized,
                zeroForOne, sqrt_price_limit_x96, exactInput)

\* The outer while loop of _uniswap_v3_pool_swap (lines 417-512).
\* st is SwapState: amount_specified_remaining, amount_calculated,
\* sqrt_price_x96, tick, liquidity.
SwapLoop(env, st, zeroForOne, sqrt_price_limit_x96, exactInput) ==
    IF ~(st.amount_specified_remaining # 0 /\ st.sqrt_price_x96 # sqrt_price_limit_x96)
    THEN [exc |-> None, amount_specified_remaining |-> st.amount_specified_remaining,
          amount_calculated |-> st.amount_calculated, env |-> env]
    ELSE AfterSearch(st, zeroForOne, sqrt_price_limit_x96, exactInput,
                     TickSearch(env, st.tick, zeroForOne))

\* lines 514-532: amount0 and amount1 from the final SwapState
SwapAmounts(zeroForOne, amount_specified, fin) ==
    IF fin.exc # None
    THEN [exc |-> fin.exc, amount0 |-> 0, amount1 |-> 0, env |-> fin.env]
    ELSE IF zeroForOne = (amount_specified > 0)
    THEN [exc |-> None,
          amount0 |-> amount_specified - fin.amount_specified_remaining,
          amount1 |-> fin.amount_calculated, env |-> fin.env]
    ELSE [exc |-> None,
          amount0 |-> fin.amount_calculated,
          amount1 |-> amount_specified - fin.amount_specified_remaining,
          env |-> fin.env]

\* V3LiquidityPool._uniswap_v3_pool_swap.
\* Returns [exc, amount0, amount1, env]: env holds the pool and the override
\* dictionaries as the call leaves them.
_uniswap_v3_pool_swap(pool, zeroForOne, amount_specified, sqrt_price_limit_x96, override_start_liquidity, override_start_sqrt_price_x96, override_start_tick, override_tick_data, override_tick_bitmap) ==
    LET env0 == SwapEnv(pool, override_tick_bitmap, override_tick_data)
        _liquidity == IF ~IsNothing(override_start_liquidity)
                      THEN Value(override_start_liquidity) ELSE pool.liquidity
        _sqrt_price_x96 == IF ~IsNothing(override_start_sqrt_price_x96)
                           THEN Value(override_start_sqrt_price_x96) ELSE pool.sqrt_price_x96
        _tick == IF ~IsNothing(override_start_tick) THEN Value(override_start_tick) ELSE pool.tick
    IN  IF amount_specified = 0
        THEN [exc |-> "EVMRevertError", amount0 |-> 0, amount1 |-> 0, env |-> env0]    \* "AS"
        ELSE IF ~(IF zeroForOne
                  THEN sqrt_price_limit_x96 < _sqrt_price_x96
                       /\ sqrt_price_limit_x96 > MIN_SQRT_RATIO
                  ELSE sqrt_price_limit_x96 > _sqrt_price_x96
                       /\ sqrt_price_limit_x96 < MAX_SQRT_RATIO)
        THEN [exc |-> "EVMRevertError", amount0 |-> 0, amount1 |-> 0, env |-> env0]    \* "SPL"
        ELSE SwapAmounts(zeroForOne, amount_specified,
                         SwapLoop(env0,
                                  [amount_specified_remaining |-> amount_specified,
                                   amount_calculated |-> 0,
                                   sqrt_price_x96 |-> _sqrt_price_x96,
                                   tick |-> _tick,
                                   liquidity |-> _liquidity],
                                  zeroForOne, sqrt_price_limit_x96, amount_specified > 0))

\* lines 744-752: the amount out, or LiquidityPoolError for a revert
V3QuoteFrom(_is_zero_for_one, r) ==
    IF r.exc = "EVMRevertError"
    THEN [exc |-> "LiquidityPoolError", out |-> 0, env |-> r.env]
    ELSE IF r.exc # None THEN [exc |-> r.exc, out |-> 0, env |-> r.env]
    ELSE [exc |-> None, env |-> r.env,
          out |-> IF _is_zero_for_one THEN -r.amount1 ELSE -r.amount0]

\* V3LiquidityPool.calculate_tokens_out_from_tokens_in.
\* Returns [exc, out, env].
V3_calculate_tokens_out_from_tokens_in(name, pool, token_in, token_in_quantity, override) ==
    IF token_in \notin Range(PoolTokens(name))
    THEN [exc |-> "ValueError", out |-> 0, env |-> SwapEnv(pool, Nothing, Nothing)]
    ELSE V3QuoteFrom(
             token_in = Token0(name),
             _uniswap_v3_pool_swap(
                 pool, token_in = Token0(name), token_in_quantity,
                 IF token_in = Token0(name) THEN MIN_SQRT_RATIO + 1 ELSE MAX_SQRT_RATIO - 1,
                 IF override # NoneObj THEN Some(override.liquidity) ELSE Nothing,
                 IF override # NoneObj THEN Some(override.sqrt_price_x96) ELSE Nothing,
                 IF override # NoneObj THEN Some(override.tick) ELSE Nothing,
                 IF override # NoneObj THEN override.tick_data ELSE Nothing,
                 IF override # NoneObj THEN override.tick_bitmap ELSE Nothing))

(***************************************************************************)
(* UniswapCurveCycle: overrides, the evaluator (arb_profit) and the        *)
(* payload builder (_build_amounts_out).                                   *)
(***************************************************************************)
UniswapV2PoolSimulationResult(current_state, future_state) ==
    [type |-> "UniswapV2PoolSimulationResult",
     current_state |-> current_state, future_state |-> future_state]
UniswapV3PoolSimulationResult(current_state, future_state) ==
    [type |-> "UniswapV3PoolSimulationResult",
     current_state |-> current_state, future_state |-> future_state]
CurveStableswapPoolSimulationResult(current_state, future_state) ==
    [type |-> "CurveStableswapPoolSimulationResult",
     current_state |-> current_state, future_state |-> future_state]

\* dict.get(key)
Get(dict, key) == IF key \in DOMAIN dict THEN dict[key] ELSE NoneObj

RECURSIVE SortLoop(_, _)

\* SortLoop taking a simulation result's current_state
SortLoop_CurrentState(pairs, sorted_overrides) ==
    IF pairs = <<>> THEN [exc |-> None, map |-> sorted_overrides]
    ELSE LET pool     == Head(pairs)[1]
             override == Head(pairs)[2]
         IN  IF override.type \in {"CurveStableswapPoolState", "UniswapV2PoolState",
                                   "UniswapV3PoolState"}
             THEN SortLoop(Tail(pairs), (pool :> override) @@ sorted_overrides)
             ELSE IF override.type \in {"UniswapV2PoolSimulationResult",
                                        "UniswapV3PoolSimulationResult"}
             THEN SortLoop(Tail(pairs), (pool :> override.current_state) @@ sorted_overrides)
             ELSE [exc |-> "ValueError", map |-> <<>>]

\* the loop of _sort_overrides over the (pool, override) pairs
SortLoop(pairs, sorted_overrides) ==
    IF pairs = <<>> THEN [exc |-> None, map |-> sorted_overrides]
    ELSE LET pool     == Head(pairs)[1]
             override == Head(pairs)[2]
         IN  IF override.type \in {"CurveStableswapPoolState", "UniswapV2PoolState",
                                   "UniswapV3PoolState"}
             THEN SortLoop(Tail(pairs), (pool :> override) @@ sorted_overrides)
             ELSE IF override.type \in {"UniswapV2PoolSimulationResult",
                                        "UniswapV3PoolSimulationResult"}
             THEN SortLoop(Tail(pairs), (pool :> override.future_state) @@ sorted_overrides)
             ELSE [exc |-> "ValueError", map |-> <<>>]

\* UniswapCurveCycle._sort_overrides; overrides is Nothing or Some(pairs)
_sort_overrides(overrides) ==
    IF IsNothing(overrides) THEN [exc |-> None, map |-> <<>>]
    ELSE SortLoop(Value(overrides), <<>>)

\* The objects a pricing call can read and write during one calculation: the
\* V3 pool and the override states held in state_overrides.
CalcEnv(v3, ovs) == [v3 |-> v3, ovs |-> ovs]

\* what a V2 or Curve quote leaves: these calls write nothing
Quoted(r, env) == [exc |-> r.exc, out |-> r.out, env |-> env]

\* what a V3 quote leaves: the pool, and the override state's tick_bitmap
\* when the override carries one (it is the dictionary the swap worked on)
QuotedV3(pool, r, env) ==
    [exc |-> r.exc, out |-> r.out,
     env |-> [v3  |-> r.env.pool,
              ovs |-> IF Get(env.ovs, pool) # NoneObj /\ ~IsNothing(r.env.ov_bitmap)
                      THEN [env.ovs EXCEPT ![pool].tick_bitmap = r.env.ov_bitmap]
                      ELSE env.ovs]]

\* pool.calculate_tokens_out_from_tokens_in(...) for the pool's type, as both
\* arb_profit and _build_amounts_out call it.  Returns [exc, out, env].
QuotePool(pool, token_in, token_out, quantity, env, reserves, balances) ==
    CASE PoolType(pool) = "LiquidityPool" ->
            Quoted(V2_calculate_tokens_out_from_tokens_in(
                       pool, reserves[pool], token_in, quantity, Get(env.ovs, pool)), env)
      [] PoolType(pool) = "CurveStableswapPool" ->
            Quoted(Curve_calculate_tokens_out_from_tokens_in(
                       pool, balances, token_in, token_out, quantity, Get(env.ovs, pool)), env)
      [] PoolType(pool) = "V3LiquidityPool" ->
            QuotedV3(pool,
                     V3_calculate_tokens_out_from_tokens_in(
                         pool, env.v3, token_in, quantity, Get(env.ovs, pool)),
                     env)

Leg(pool, amount_in, exc, out) == [pool |-> pool, amount_in |-> amount_in, exc |-> exc, out |-> out]

RECURSIVE ArbLoop(_, _, _, _, _, _, _, _, _)

\* the try/except of arb_profit around one pool's quote r (lines 490-525)
ArbQuoted(pools, vectors, i, token_in_quantity, quantity, reserves, balances, legs, r) ==
    IF r.exc = None
    THEN ArbLoop(pools, vectors, i + 1, token_in_quantity, r.out, r.env, reserves, balances,
                 Append(legs, Leg(pools[i + 1], quantity, r.exc, r.out)))
    ELSE [exc  |-> IF r.exc = "EVMRevertError" \/ IsLiquidityPoolError(r.exc)
                   THEN None                       \* token_out_quantity = 0; break
                   ELSE r.exc,
          out  |-> 0, env |-> r.env,
          legs |-> Append(legs, Leg(pools[i + 1], quantity, r.exc, r.out))]

\* the quote of pool i: the input amount for the first pool, the previous
\* pool's output for the others
ArbQuote(pools, vectors, i, token_in_quantity, quantity, env, reserves, balances, legs) ==
    ArbQuoted(pools, vectors, i, token_in_quantity, quantity, reserves, balances, legs,
              QuotePool(pools[i + 1], vectors[i + 1].token_in, vectors[i + 1].token_out,
                        quantity, env, reserves, balances))

\* The for loop of arb_profit from pool i on (lines 488-525).
\* Returns [exc, out, env, legs]: exc is an exception that leaves arb_profit
\* (or "diverges"), out is token_out_quantity after the loop.
ArbLoop(pools, vectors, i, token_in_quantity, token_out_quantity, env, reserves, balances, legs) ==
    IF i >= Len(pools) THEN [exc |-> None, out |-> token_out_quantity, env |-> env, legs |-> legs]
    ELSE ArbQuote(pools, vectors, i, token_in_quantity,
                  IF i = 0 THEN token_in_quantity ELSE token_out_quantity,
                  env, reserves, balances, legs)

\* line 530: return -float(token_out_quantity - token_in_quantity)
ArbValue(r, token_in_quantity) ==
    [exc |-> r.exc, out |-> r.out, env |-> r.env, legs |-> r.legs,
     fun |-> -float(r.out - token_in_quantity)]

\* _calculate.arb_profit(x), with x already rounded down to int(x).
\* fun is the float returned.
arb_profit(pools, vectors, token_in_quantity, env, reserves, balances) ==
    ArbValue(ArbLoop(pools, vectors, 0, token_in_quantity, 0, env, reserves, balances, <<>>),
             token_in_quantity)

UniswapV2PoolSwapAmounts(amounts) ==
    [kind |-> "UniswapV2PoolSwapAmounts", amounts |-> amounts]
UniswapV3PoolSwapAmounts(amount_specified, zero_for_one, sqrt_price_limit_x96) ==
    [kind |-> "UniswapV3PoolSwapAmounts", amount_specified |-> amount_specified,
     zero_for_one |-> zero_for_one, sqrt_price_limit_x96 |-> sqrt_price_limit_x96]
CurveStableSwapPoolSwapAmounts(token_in, token_in_index, token_out, token_out_index, amount_in, min_amount_out, underlying) ==
    [kind |-> "CurveStableSwapPoolSwapAmounts", token_in |-> token_in,
     token_in_index |-> token_in_index, token_out |-> token_out,
     token_out_index |-> token_out_index, amount_in |-> amount_in,
     min_amount_out |-> min_amount_out, underlying |-> underlying]

\* the swap amounts appended for one pool (lines 310-352)
SwapAmountsFor(pool, vector, _token_in_quantity, _token_out_quantity) ==
    CASE PoolType(pool) = "LiquidityPool" ->
            UniswapV2PoolSwapAmounts(IF vector.zero_for_one
                                     THEN <<0, _token_out_quantity>>
                                     ELSE <<_token_out_quantity, 0>>)
      [] PoolType(pool) = "V3LiquidityPool" ->
            UniswapV3PoolSwapAmounts(_token_in_quantity, vector.zero_for_one,
                                     IF vector.zero_for_one THEN MIN_SQRT_RATIO + 1
                                     ELSE MAX_SQRT_RATIO - 1)
      [] PoolType(pool) = "CurveStableswapPool" ->
            CurveStableSwapPoolSwapAmounts(
                vector.token_in, IndexOf(PoolTokens(pool), vector.token_in) - 1,
                vector.token_out, IndexOf(PoolTokens(pool), vector.token_out) - 1,
                _token_in_quantity, _token_out_quantity,
                is_metapool(pool) /\ (\/ InSeq(tokens_underlying(pool), vector.token_in)
                                      \/ InSeq(tokens_underlying(pool), vector.token_out)))

RECURSIVE BuildLoop(_, _, _, _, _, _, _, _, _, _)

\* BuildQuoted without the test "_token_out_quantity == 0"
BuildQuoted_NoZeroCheck(pools, vectors, i, token_in_quantity, _token_in_quantity, reserves, balances, pools_amounts_out, legs, r) ==
    IF r.exc # None
    THEN [exc |-> IF IsLiquidityPoolError(r.exc) THEN "ArbitrageError" ELSE r.exc,
          amounts |-> <<>>, env |-> r.env,
          legs |-> Append(legs, Leg(pools[i + 1], _token_in_quantity, r.exc, r.out))]
    ELSE BuildLoop(pools, vectors, i + 1, token_in_quantity, r.out, r.env, reserves, balances,
                   Append(pools_amounts_out,
                          SwapAmountsFor(pools[i + 1], vectors[i + 1], _token_in_quantity, r.out)),
                   Append(legs, Leg(pools[i + 1], _token_in_quantity, r.exc, r.out)))

\* the try/except/else of _build_amounts_out around one pool's quote r, and
\* the swap amounts appended (lines 295-352)
BuildQuoted(pools, vectors, i, token_in_quantity, _token_in_quantity, reserves, balances, pools_amounts_out, legs, r) ==
    IF r.exc # None
    THEN [exc |-> IF IsLiquidityPoolError(r.exc) THEN "ArbitrageError" ELSE r.exc,
          amounts |-> <<>>, env |-> r.env,
          legs |-> Append(legs, Leg(pools[i + 1], _token_in_quantity, r.exc, r.out))]
    ELSE IF r.out = 0
    THEN [exc |-> "ArbitrageError", amounts |-> <<>>, env |-> r.env,
          legs |-> Append(legs, Leg(pools[i + 1], _token_in_quantity, r.exc, r.out))]
    ELSE BuildLoop(pools, vectors, i + 1, token_in_quantity, r.out, r.env, reserves, balances,
                   Append(pools_amounts_out,
                          SwapAmountsFor(pools[i + 1], vectors[i + 1], _token_in_quantity, r.out)),
                   Append(legs, Leg(pools[i + 1], _token_in_quantity, r.exc, r.out)))

\* BuildQuote handing every pool the amount given for the first pool
BuildQuote_FirstAmount(pools, vectors, i, token_in_quantity, _token_in_quantity, env, reserves, balances, pools_amounts_out, legs) ==
    BuildQuoted(pools, vectors, i, token_in_quantity, token_in_quantity, reserves, balances,
                pools_amounts_out, legs,
                QuotePool(pools[i + 1], vectors[i + 1].token_in, vectors[i + 1].token_out,
                          token_in_quantity, env, reserves, balances))

BuildQuote(pools, vectors, i, token_in_quantity, _token_in_quantity, env, reserves, balances, pools_amounts_out, legs) ==
    BuildQuoted(pools, vectors, i, token_in_quantity, _token_in_quantity, reserves, balances,
                pools_amounts_out, legs,
                QuotePool(pools[i + 1], vectors[i + 1].token_in, vectors[i + 1].token_out,
                          _token_in_quantity, env, reserves, balances))

\* The for loop of _build_amounts_out from pool i on (lines 246-352).
\* Returns [exc, amounts, env, legs].
BuildLoop(pools, vectors, i, token_in_quantity, _token_out_quantity, env, reserves, balances, pools_amounts_out, legs) ==
    IF i >= Len(pools)
    THEN [exc |-> None, amounts |-> pools_amounts_out, env |-> env, legs |-> legs]
    ELSE BuildQuote(pools, vectors, i, token_in_quantity,
                    IF i = 0 THEN token_in_quantity ELSE _token_out_quantity,
                    env, reserves, balances, pools_amounts_out, legs)

\* UniswapCurveCycle._build_amounts_out
_build_amounts_out(pools, vectors, token_in_quantity, env, reserves, balances) ==
    BuildLoop(pools, vectors, 0, token_in_quantity, 0, env, reserves, balances, <<>>, <<>>)

ArbitrageCalculationResult(token, input_amount, profit_amount, swap_amounts) ==
    [id |-> "test", input_token |-> token, profit_token |-> token,
     input_amount |-> input_amount, profit_amount |-> profit_amount,
     swap_amounts |-> swap_amounts]

(***************************************************************************)
(* The configurations explored.                                            *)
(***************************************************************************)
PoolLists ==
    { <<"v2_weth_dai", "curve_pool", "v2_weth_usdt">>,
      <<"v2_weth_usdt", "curve_pool", "v2_weth_dai">>,
      <<"v2_weth_dai", "curve_pool", "v3_weth_usdt">>,
      <<"v2_weth_usdt", "v3_weth_usdt">>,
      <<"v3_weth_usdt", "v2_weth_usdt">>,
      <<"v2_weth_dai", "v2_weth_usdt">>,
      <<"v2_weth_usdt", "v2_weth_usdt">>,
      <<"curve_pool", "v2_weth_dai">>,
      <<"v2_weth_dai", "curve_pool">>,
      <<"v2_weth_dai", "curve_pool", "curve_pool">>,
      <<"v2_weth_dai", "v2_weth_usdt", "curve_pool">> }
InputTokens == {"WETH", "DAI", "USDT"}

\* reserves (token0, token1) a V2 pool may hold
V2ReserveChoices(pool) ==
    IF pool = "v2_weth_dai" THEN { <<200, 20>> }           \* DAI, WETH
    ELSE { <<20, 200>>, <<20, 50>> }                       \* WETH, USDT
\* balances (DAI, USDC, USDT) the Curve pool may hold
CurveBalanceChoices == { <<60, 60, 60>>, <<16, 9, 1>> }
\* tokens_sold of the swaps reported to the Curve pool
UpdateAmounts == {20}
\* the V3 pool: a complete snapshot of the words that hold ticks, or a sparse
\* one that knows word 0 only
V3PoolChoices ==
    { [sparse |-> FALSE, liquidity |-> 20, sqrt_price_x96 |-> 105, tick |-> 0,
       tick_bitmap |-> (-1 :> {2}) @@ (0 :> {2}), tick_data |-> CHAIN_TICK_DATA],
      [sparse |-> TRUE, liquidity |-> 20, sqrt_price_x96 |-> 105, tick |-> 0,
       tick_bitmap |-> (0 :> {2}), tick_data |-> (2 :> -20)] }

V2Override == UniswapV2PoolState("v2_weth_dai", 220, 20)
CurveOverride == CurveStableswapPoolState("curve_pool", <<60, 60, 60>>)
V3Override ==
    UniswapV3PoolState("v3_weth_usdt", 40, 105, 0, Some((0 :> {2})), Some((2 :> -40)))

\* the override_state arguments calculate() is called with
OverrideChoices ==
    { Nothing,
      Some(<<>>),
      Some(<< <<"v2_weth_dai", V2Override>> >>),
      Some(<< <<"v2_weth_dai", UniswapV2PoolSimulationResult(
                                   UniswapV2PoolState("v2_weth_dai", 200, 20), V2Override)>> >>),
      Some(<< <<"curve_pool", CurveOverride>> >>),
      Some(<< <<"curve_pool", CurveStableswapPoolSimulationResult(
                                     CurveOverride, CurveOverride)>> >>),
      Some(<< <<"v3_weth_usdt", V3Override>> >>),
      Some(<< <<"v3_weth_usdt", UniswapV3PoolSimulationResult(V3Override, V3Override)>> >>),
      Some(<< <<"v2_weth_dai", V2Override>>, <<"curve_pool", CurveOverride>> >>),
      Some(<< <<"v2_weth_usdt", [type |-> "dict"]>> >>) }

\* the A ramp of the Curve pool: none, or a ramp from 100 to 300 (A = 1 to 3
\* with A_PRECISION) over the timestamps 0..2
CurveRampChoices ==
    { Nothing,
      Some([initial_a_coefficient |-> 100, initial_a_coefficient_time |-> 0,
            future_a_coefficient |-> 300, future_a_coefficient_time |-> 2]) }

InCycle(pools, pool) == InSeq(pools, pool)

(***************************************************************************)
(* The state machine.                                                      *)
(***************************************************************************)
\* the cycle before construction, the V3 pool and the chain
InitCycle(ramps) ==
    /\ swap_pools \in PoolLists
    /\ input_token \in InputTokens
    /\ max_input = Nothing
    /\ cycle_status = "new"
    /\ swap_vectors = <<>>
    /\ pool_states = Nothing
    /\ subscribers = [p \in Pools |-> FALSE]
    /\ curve_state = [live |-> TRUE, balances |-> <<>>, update_block |-> 0, updates |-> 0]
    /\ v3_pool \in V3PoolChoices
    /\ ~InCycle(swap_pools, "v3_weth_usdt") => ~v3_pool.sparse
    /\ v3_update = [update_block |-> 1,
                    archive |-> (0 :> [liquidity |-> 0, sqrt_price_x96 |-> 0, tick |-> 0])
                                @@ (1 :> [liquidity |-> v3_pool.liquidity,
                                          sqrt_price_x96 |-> v3_pool.sqrt_price_x96,
                                          tick |-> v3_pool.tick]),
                    gross |-> <<>>, notifications |-> 0, locked |-> FALSE, calls |-> 0,
                    last |-> NoneObj]
    /\ pc = "idle"
    /\ override_state = Nothing
    /\ state_overrides = <<>>
    /\ nprobes = 0
    /\ opt_x = 0
    /\ opt_fun = 0
    /\ all_failed = TRUE
    /\ last_probe = NoneObj
    /\ build = NoneObj
    /\ outcome = "none"
    /\ result = NoneObj
    /\ quote = NoneObj
    /\ with_pool = FALSE
    /\ executor = <<>>
    /\ payloads = NoneObj
    /\ notified = NoneObj
    /\ curve_ramp \in ramps
    /\ block_timestamp = 0

InitWith(ramps) ==
    /\ InitCycle(ramps)
    /\ v2_reserves \in [V2Pools -> UNION {V2ReserveChoices(p) : p \in V2Pools}]
    /\ \A p \in V2Pools :
          /\ v2_reserves[p] \in V2ReserveChoices(p)
          /\ ~InCycle(swap_pools, p) => v2_reserves[p] = <<20, 200>> \/ p = "v2_weth_dai"
    /\ curve_balances \in CurveBalanceChoices
    /\ ~InCycle(swap_pools, "curve_pool") => curve_balances = <<60, 60, 60>>

\* the Curve pool is not ramping A
Init == InitWith({Nothing})

\* "setting to 100 WETH": 100 * 10**18, in the units of MaxInput
DEFAULT_MAX_INPUT == 10

\* UniswapCurveCycle.__init__(input_token, swap_pools, id, max_input);
\* max_input is an amount or None
Construct(mi) ==
    /\ cycle_status = "new"
    /\ LET d == DeriveSwapVectors(swap_pools, input_token) IN
       \* pool.subscribe(self) runs for every pool before the vectors are derived
       /\ subscribers' = [p \in Pools |-> InCycle(swap_pools, p)]
       /\ max_input' = IF IsNothing(mi) THEN Some(DEFAULT_MAX_INPUT) ELSE mi
       /\ IF d.err = None
          THEN /\ cycle_status' = "constructed"
               /\ swap_vectors' = d.vectors
               /\ pool_states' = Some(<<>>)
          ELSE /\ cycle_status' = d.err
               /\ UNCHANGED <<swap_vectors, pool_states>>
    /\ UNCHANGED <<swap_pools, input_token, pool_vars, calc_vars, call_vars, chain_vars>>

\* the head of _calculate(override_state), which sorts the overrides
_calculate_head(ov) ==
    LET sorted == _sort_overrides(ov) IN
    IF sorted.exc # None
    THEN /\ pc' = "done"
         /\ outcome' = sorted.exc
         /\ UNCHANGED state_overrides
    ELSE /\ pc' = "probing"
         /\ state_overrides' = sorted.map
         /\ UNCHANGED outcome

\* calculate(override_state): _pre_calculation_check (which returns at once),
\* then _calculate
Calculate(ov) ==
    /\ cycle_status = "constructed"
    /\ pc = "idle"
    /\ override_state' = ov
    /\ _calculate_head(ov)
    /\ UNCHANGED <<cycle_vars, pool_vars, nprobes, opt_x, opt_fun, all_failed,
                   last_probe, build, result, call_vars, chain_vars>>

\* what one call of arb_profit, having done r, leaves in the optimizer
Probed(x, r) ==
    /\ v3_pool' = r.env.v3
    /\ state_overrides' = r.env.ovs
    /\ last_probe' = [x |-> x, exc |-> r.exc, out |-> r.out, fun |-> r.fun, legs |-> r.legs,
                      pre |-> CalcEnv(v3_pool, state_overrides)]
    /\ nprobes' = nprobes + 1
    /\ IF r.exc = "diverges"
       THEN /\ pc' = "hung"
            /\ UNCHANGED <<opt_x, opt_fun, all_failed, outcome>>
       ELSE IF r.exc # None
       THEN /\ pc' = "done"                       \* the exception leaves calculate()
            /\ outcome' = r.exc
            /\ UNCHANGED <<opt_x, opt_fun, all_failed>>
       ELSE /\ pc' = "probing"
            /\ all_failed' = (all_failed /\ r.out = 0)
            /\ IF nprobes = 0 \/ r.fun <= opt_fun
               THEN opt_x' = x /\ opt_fun' = r.fun
               ELSE UNCHANGED <<opt_x, opt_fun>>
            /\ UNCHANGED outcome

\* Probe without the upper bound of minimize_scalar
Probe_AboveMaxInput(x) ==
    /\ pc = "probing"
    /\ nprobes < MaxProbes
    /\ x >= 1
    /\ Probed(x, arb_profit(swap_pools, swap_vectors, x, CalcEnv(v3_pool, state_overrides),
                            v2_reserves, curve_balances))
    /\ UNCHANGED <<cycle_vars, update_vars, v2_reserves, curve_balances, override_state, build, result,
                   call_vars, chain_vars>>

\* One call of arb_profit(x) made by minimize_scalar between the bounds
\* (1.0, max_input); x is int(x).  The optimizer keeps the point with the
\* smallest value seen, a later point replacing an equal earlier one.
Probe(x) ==
    /\ pc = "probing"
    /\ nprobes < MaxProbes
    /\ x \in 1..(Value(max_input) - 1)
    /\ Probed(x, arb_profit(swap_pools, swap_vectors, x, CalcEnv(v3_pool, state_overrides),
                            v2_reserves, curve_balances))
    /\ UNCHANGED <<cycle_vars, update_vars, v2_reserves, curve_balances, override_state, build, result,
                   call_vars, chain_vars>>

\* lines 540-567 once _build_amounts_out has done b
Built(best_profit, swap_amount, b) ==
    /\ v3_pool' = b.env.v3
    /\ state_overrides' = b.env.ovs
    /\ build' = [x |-> swap_amount, exc |-> b.exc, amounts |-> b.amounts, legs |-> b.legs]
    /\ IF b.exc = "diverges"
       THEN /\ pc' = "hung"
            /\ UNCHANGED <<outcome, result>>
       ELSE IF b.exc # None
       THEN /\ pc' = "done"                       \* ArbitrageError, or wrapped into one
            /\ outcome' = "ArbitrageError"
            /\ UNCHANGED result
       ELSE /\ pc' = "done"
            /\ outcome' = "result"
            /\ result' = ArbitrageCalculationResult(input_token, swap_amount,
                                                    best_profit, b.amounts)

\* The rest of _calculate once minimize_scalar has returned (lines 540-567)
Build ==
    /\ pc = "probing"
    /\ nprobes >= 1
    /\ Built(-opt_fun, opt_x,
             _build_amounts_out(swap_pools, swap_vectors, opt_x,
                                CalcEnv(v3_pool, state_overrides),
                                v2_reserves, curve_balances))
    /\ UNCHANGED <<cycle_vars, update_vars, v2_reserves, curve_balances, override_state, nprobes,
                   opt_x, opt_fun, all_failed, last_probe, call_vars, chain_vars>>

Next ==
    \/ Construct(Some(MaxInput))
    \/ \E ov \in OverrideChoices : Calculate(ov)
    \/ \E x \in 1..MaxInput : Probe(x)
    \/ Build

Spec == Init /\ [][Next]_vars

\* a cycle V2 -> Curve -> V2 whose first pool pays 1 USDT for 11 WETH and
\* whose Curve pool holds little USDC
InitImbalanced ==
    /\ InitCycle({Nothing})
    /\ swap_pools = <<"v2_weth_usdt", "curve_pool", "v2_weth_dai">>
    /\ v2_reserves = [p \in V2Pools |-> <<200, 20>>]
    /\ curve_balances = <<94, 1, 29>>

SpecImbalanced == InitImbalanced /\ [][Next]_vars

\* the cycle constructed with a max_input, or with none
SpecMaxInput ==
    Init /\ [][\/ \E mi \in {Nothing, Some(MaxInput)} : Construct(mi)
               \/ \E ov \in OverrideChoices : Calculate(ov)
               \/ \E x \in 1..MaxInput : Probe(x)
               \/ Build]_vars

(***************************************************************************)
(* calculate_with_pool(executor, override_state): the calculation wrapped  *)
(* into a future run by an executor.                                       *)
(***************************************************************************)
\* any([pool._sparse_bitmap for pool in swap_pools if isinstance(pool, V3LiquidityPool)])
AnySparseBitmap_Never(pools) ==
    FALSE

AnySparseBitmap(pools) ==
    \E i \in 1..Len(pools) : PoolType(pools[i]) = "V3LiquidityPool" /\ v3_pool.sparse

\* lines 610-623: the sparse test, _pre_calculation_check (which returns at
\* once), then run_in_executor(executor, self._calculate, override_state)
CalculateWithPool(ov) ==
    /\ cycle_status = "constructed"
    /\ pc = "idle"
    /\ with_pool' = TRUE
    /\ override_state' = ov
    /\ IF AnySparseBitmap(swap_pools)
       THEN /\ pc' = "done"
            /\ outcome' = "ValueError"
            /\ UNCHANGED executor
       ELSE /\ pc' = "submitted"
            /\ executor' = Append(executor, [fn |-> "_calculate", override_state |-> ov])
            /\ UNCHANGED outcome
    /\ UNCHANGED <<cycle_vars, pool_vars, state_overrides, nprobes, opt_x, opt_fun,
                   all_failed, last_probe, build, result, quote, payloads, notified,
                   chain_vars>>

\* the executor starts the submitted task: _calculate(override_state)
ExecutorRun ==
    /\ pc = "submitted"
    /\ executor # <<>>
    /\ _calculate_head(executor[Len(executor)].override_state)
    /\ UNCHANGED <<cycle_vars, pool_vars, override_state, nprobes, opt_x, opt_fun,
                   all_failed, last_probe, build, result, call_vars, chain_vars>>

SpecWithPool ==
    Init /\ [][\/ Construct(Some(MaxInput))
               \/ \E ov \in OverrideChoices : CalculateWithPool(ov)
               \/ ExecutorRun
               \/ \E x \in 1..MaxInput : Probe(x)
               \/ Build]_vars

(***************************************************************************)
(* generate_payloads(from_address, swap_amount, pool_swap_amounts,         *)
(* infinite_approval).  A payload is (address, calldata, msg_value); the   *)
(* calldata, selector + eth_abi.encode(args), is kept as <<signature,      *)
(* args>>.  A pool's and a token's address is its name.                    *)
(***************************************************************************)
FROM_ADDRESS == "from_address"
MAX_UINT256 == 1048575
msg_value == 0

Payload(address, signature, args) ==
    [address |-> address, calldata |-> <<signature, args>>, value |-> msg_value]

\* lines 682-705: where the swap at index i (from 1) sends its output
SwapDestination(pools, i, from_address) ==
    IF pools[i] = pools[Len(pools)]                 \* swap_pool is last_pool
    THEN from_address
    ELSE IF PoolType(pools[i + 1]) = "LiquidityPool" THEN pools[i + 1]
         ELSE from_address

\* lines 778-783
amount_to_approve_Always(infinite_approval, current_approval, amount_in) ==
    IF infinite_approval THEN Some(MAX_UINT256) ELSE Some(amount_in)

amount_to_approve(infinite_approval, current_approval, amount_in) ==
    IF infinite_approval /\ current_approval # MAX_UINT256 THEN Some(MAX_UINT256)
    ELSE IF ~infinite_approval /\ current_approval < amount_in THEN Some(amount_in)
    ELSE Nothing

\* lines 707-817: the payloads appended for the pool at index i
PoolPayloads(pools, i, _swap_amounts, from_address, infinite_approval, current_approval) ==
    LET swap_pool == pools[i]
        swap_destination_address == SwapDestination(pools, i, from_address)
    IN  CASE PoolType(swap_pool) = "LiquidityPool" ->
                << Payload(swap_pool, "swap(uint256,uint256,address,bytes)",
                           <<_swap_amounts.amounts[1], _swap_amounts.amounts[2],
                             swap_destination_address, "">>) >>
          [] PoolType(swap_pool) = "V3LiquidityPool" ->
                << Payload(swap_pool, "swap(address,bool,int256,uint160,bytes)",
                           <<swap_destination_address, _swap_amounts.zero_for_one,
                             _swap_amounts.amount_specified,
                             _swap_amounts.sqrt_price_limit_x96, "">>) >>
          [] PoolType(swap_pool) = "CurveStableswapPool" ->
                LET approve == amount_to_approve(infinite_approval, current_approval,
                                                 _swap_amounts.amount_in)
                IN  (IF IsNothing(approve) THEN <<>>
                     ELSE << Payload(_swap_amounts.token_in, "approve(address,uint256)",
                                     <<swap_pool, Value(approve)>>) >>)
                    \o << Payload(swap_pool, "exchange(int128,int128,uint256,uint256)",
                                  <<_swap_amounts.token_in_index,
                                    _swap_amounts.token_out_index,
                                    _swap_amounts.amount_in,
                                    _swap_amounts.min_amount_out>>) >>

\* line 679: the loop over zip(self.swap_pools, pool_swap_amounts)
RECURSIVE PayloadLoop(_, _, _, _, _, _, _)
PayloadLoop(pools, pool_swap_amounts, i, from_address, infinite_approval, current_approval, acc) ==
    IF i > Len(pools) \/ i > Len(pool_swap_amounts) THEN acc
    ELSE PayloadLoop(pools, pool_swap_amounts, i + 1, from_address, infinite_approval,
                     current_approval,
                     acc \o PoolPayloads(pools, i, pool_swap_amounts[i], from_address,
                                         infinite_approval, current_approval))

\* lines 644-826; the result is [exc, payloads]
generate_payloads_NoEmptyCheck(pools, token, from_address, swap_amount, pool_swap_amounts, infinite_approval, current_approval) ==
    [exc |-> None,
     payloads |->
        PayloadLoop(pools, pool_swap_amounts, 1, from_address, infinite_approval,
                    current_approval,
                    IF PoolType(pools[1]) = "LiquidityPool"
                    THEN << Payload(token, "transfer(address,uint256)",
                                    <<pools[1], swap_amount>>) >>
                    ELSE <<>>)]

generate_payloads(pools, token, from_address, swap_amount, pool_swap_amounts, infinite_approval, current_approval) ==
    IF pool_swap_amounts = <<>>
    THEN [exc |-> "ArbitrageError", payloads |-> <<>>]
    ELSE [exc |-> None,
          payloads |->
             PayloadLoop(pools, pool_swap_amounts, 1, from_address, infinite_approval,
                         current_approval,
                         IF PoolType(pools[1]) = "LiquidityPool"
                         THEN << Payload(token, "transfer(address,uint256)",
                                         <<pools[1], swap_amount>>) >>
                         ELSE <<>>)]

\* the allowance token_in.get_approval(from_address, pool) may report
ApprovalChoices == {0, MaxInput * 20, MAX_UINT256}

\* generate_payloads called, once, with the amounts of the result calculate()
\* returned, or with an empty list
GeneratePayloads(pool_swap_amounts, infinite_approval, current_approval) ==
    /\ pc = "done"
    /\ outcome = "result"
    /\ payloads = NoneObj
    /\ LET r == generate_payloads(swap_pools, input_token, FROM_ADDRESS, result.input_amount,
                                  pool_swap_amounts, infinite_approval, current_approval)
       IN  payloads' = [from_address |-> FROM_ADDRESS, swap_amount |-> result.input_amount,
                        pool_swap_amounts |-> pool_swap_amounts,
                        infinite_approval |-> infinite_approval,
                        current_approval |-> current_approval,
                        exc |-> r.exc, payloads |-> r.payloads]
    /\ UNCHANGED <<cycle_vars, pool_vars, calc_vars, quote, with_pool, executor, notified,
                   chain_vars>>

SpecPayloads ==
    Init /\ [][\/ Next
               \/ \E infinite_approval \in BOOLEAN : \E current_approval \in ApprovalChoices :
                     \/ GeneratePayloads(result.swap_amounts, infinite_approval,
                                         current_approval)
                     \/ GeneratePayloads(<<>>, infinite_approval, current_approval)]_vars

(***************************************************************************)
(* notify(publisher): a pool the cycle subscribed to reports a change.     *)
(* pool.state is an object; the cache keeps the object, not a copy.  A V2  *)
(* or Curve state holds numbers only.  A V3 state holds the dicts the pool *)
(* itself reads and writes through .tick_bitmap and .tick_data (lines      *)
(* 578-611 of v3_liquidity_pool.py), kept here as the reference "live".    *)
(***************************************************************************)
\* CurveStableswapPool.state.balances: the list pool.balances names
\* (curve_state.live), or the content of a list the pool has dropped
StateBalances == IF curve_state.live THEN curve_balances ELSE curve_state.balances

\* pool.state
PoolState(pool) ==
    CASE PoolType(pool) = "LiquidityPool" ->
            UniswapV2PoolState(pool, v2_reserves[pool][1], v2_reserves[pool][2])
      [] PoolType(pool) = "V3LiquidityPool" ->
            UniswapV3PoolState(pool, v3_pool.liquidity, v3_pool.sqrt_price_x96,
                               v3_pool.tick, "live", "live")
      [] PoolType(pool) = "CurveStableswapPool" ->
            CurveStableswapPoolState(pool, StateBalances)

\* self.pool_states.update({pool.address: pool.state})
_update_pool_states(states, pool) ==
    [a \in (DOMAIN states) \cup {pool} |-> IF a = pool THEN PoolState(pool) ELSE states[a]]

\* lines 828-831.  A cycle whose constructor raised is still in the
\* subscribers of its pools, and has no pool_states attribute.
Notify(publisher) ==
    /\ subscribers[publisher]
    /\ IF PoolType(publisher) \in {"LiquidityPool", "V3LiquidityPool"}
       THEN IF IsNothing(pool_states)
            THEN /\ notified' = [publisher |-> publisher, exc |-> "AttributeError"]
                 /\ UNCHANGED pool_states
            ELSE /\ notified' = [publisher |-> publisher, exc |-> None]
                 /\ pool_states' = Some(_update_pool_states(Value(pool_states), publisher))
       ELSE /\ notified' = [publisher |-> publisher, exc |-> None]
            /\ UNCHANGED pool_states
    /\ UNCHANGED <<swap_pools, input_token, max_input, cycle_status, swap_vectors,
                   subscribers, pool_vars, calc_vars, quote, with_pool, executor,
                   payloads, chain_vars>>

SpecNotify == Init /\ [][Next \/ \E publisher \in Pools : Notify(publisher)]_vars

\* __init__ up to the end of "for pool in swap_pools: pool.subscribe(self)"
\* (lines 72-84); every pool explored passes the isinstance test
ConstructSubscribe ==
    /\ cycle_status = "new"
    /\ cycle_status' = "constructing"
    /\ subscribers' = [p \in Pools |-> InCycle(swap_pools, p)]
    /\ UNCHANGED <<swap_pools, input_token, max_input, swap_vectors, pool_states,
                   pool_vars, calc_vars, call_vars, chain_vars>>

\* the rest of __init__ (lines 86-167)
ConstructFinish(mi) ==
    /\ cycle_status = "constructing"
    /\ LET d == DeriveSwapVectors(swap_pools, input_token) IN
       /\ max_input' = IF IsNothing(mi) THEN Some(DEFAULT_MAX_INPUT) ELSE mi
       /\ IF d.err = None
          THEN /\ cycle_status' = "constructed"
               /\ swap_vectors' = d.vectors
               /\ pool_states' = Some(<<>>)
          ELSE /\ cycle_status' = d.err
               /\ UNCHANGED <<swap_vectors, pool_states>>
    /\ UNCHANGED <<swap_pools, input_token, subscribers, pool_vars, calc_vars, call_vars,
                   chain_vars>>

\* the pools notify while the constructor runs in another thread, and after
SpecConstructing ==
    Init /\ [][\/ ConstructSubscribe
               \/ ConstructFinish(Some(MaxInput))
               \/ \E publisher \in Pools : Notify(publisher)]_vars

(***************************************************************************)
(* Pricing calls made on the pools directly.                               *)
(***************************************************************************)
\* the (token_in, token_out) pairs a pool trades
TokenPairs(pool) ==
    {pair \in Range(PoolTokens(pool)) \X Range(PoolTokens(pool)) : pair[1] # pair[2]}

\* what pool.calculate_tokens_out_from_tokens_in, having done r, leaves
PricingCalled(pool, token_in, token_out, quantity, r) ==
    /\ quote' = [pool |-> pool, token_in |-> token_in, token_out |-> token_out,
                 quantity |-> quantity, exc |-> r.exc, out |-> r.out]
    /\ v3_pool' = r.env.v3

\* pool.calculate_tokens_out_from_tokens_in(token_in, token_in_quantity), with
\* token_out for a Curve pool, and no override
PricingCall(pool, token_in, token_out, quantity) ==
    /\ PricingCalled(pool, token_in, token_out, quantity,
                     QuotePool(pool, token_in, token_out, quantity,
                               CalcEnv(v3_pool, <<>>), v2_reserves, curve_balances))
    /\ UNCHANGED <<cycle_vars, update_vars, v2_reserves, curve_balances, calc_vars, chain_vars,
                   with_pool, executor, payloads, notified>>


\* the pools on their own, in each state Init gives them: pricing calls, and
\* no cycle constructed
InitPricing ==
    /\ Init
    /\ swap_pools = <<"v2_weth_dai", "curve_pool", "v3_weth_usdt">>
    /\ input_token = "WETH"

SpecPricing ==
    InitPricing /\
    [][\E pool \in Pools : \E pair \in TokenPairs(pool) :
         \E quantity \in (-MaxQuote)..MaxQuote :
            PricingCall(pool, pair[1], pair[2], quantity)]_vars

(***************************************************************************)
(* Updates of the Curve pool.  pool.state is built by _update_pool_state,  *)
(* which __init__ calls once, as CurveStableswapPoolState(pool=self,       *)
(* balances=self.balances): the state holds the list object, not a copy.   *)
(* curve_state.live says that state.balances is the list pool.balances     *)
(* names now; otherwise curve_state.balances is the content of the list    *)
(* the state kept.                                                         *)
(***************************************************************************)
\* auto_update(block_number): token_balances is what the contract reports.
\* "self.balances = token_balances" binds the attribute to a new list.
CurveAutoUpdate(block_number, token_balances) ==
    /\ curve_state.updates < MaxUpdates
    /\ IF token_balances # curve_balances
       THEN /\ curve_balances' = token_balances
            /\ curve_state' = [live |-> FALSE, balances |-> StateBalances,
                               update_block |-> block_number,
                               updates |-> curve_state.updates + 1]
       ELSE /\ UNCHANGED curve_balances
            /\ curve_state' = [curve_state EXCEPT !.update_block = block_number,
                                                  !.updates = @ + 1]
    /\ UNCHANGED <<cycle_vars, v2_reserves, v3_pool, v3_update, calc_vars, call_vars,
                   chain_vars>>

\* lines 2039-2056: the output and the admin fee external_update predicts
\* for the swap (i, j, dx); [exc, out, dy_admin_fee]
PredictedSwap(balances, i, j, dx) ==
    LET xs == _xp(rate_multipliers, balances)
        x  == xs[i + 1] + ((dx * rate_multipliers[i + 1]) \div PRECISION)
        yr == _get_y(i, j, x, xs)
    IN  IF yr.exc # None THEN [exc |-> yr.exc, out |-> 0, dy_admin_fee |-> 0]
        ELSE LET dy0    == xs[j + 1] - yr.out - 1
                 dy_fee == (dy0 * curve_fee) \div FEE_DENOMINATOR
             IN  [exc |-> None,
                  out |-> ((dy0 - dy_fee) * PRECISION) \div rate_multipliers[j + 1],
                  dy_admin_fee |-> ((((dy_fee * admin_fee) \div FEE_DENOMINATOR) * PRECISION)
                                        \div rate_multipliers[j + 1])]

\* external_update(update): update is (sold_id, bought_id, tokens_sold,
\* tokens_bought, block_number).  The balances are changed in the list.
CurveExternalUpdate(i, j, dx, dy_out, block_number) ==
    /\ curve_state.updates < MaxUpdates
    /\ LET p == PredictedSwap(curve_balances, i, j, dx) IN
       IF p.exc # None \/ p.out # dy_out               \* raised, or the assert failed
       THEN /\ UNCHANGED curve_balances
            /\ curve_state' = [curve_state EXCEPT !.updates = @ + 1]
       ELSE /\ curve_balances' = [curve_balances EXCEPT
                                     ![i + 1] = @ + dx,
                                     ![j + 1] = @ - (dy_out + p.dy_admin_fee)]
            /\ curve_state' = [curve_state EXCEPT
                                   !.update_block = IF block_number # 0 THEN block_number
                                                    ELSE @,
                                   !.updates = @ + 1]
    /\ UNCHANGED <<cycle_vars, v2_reserves, v3_pool, v3_update, calc_vars, call_vars,
                   chain_vars>>

\* the Curve pool on its own: any sequence of updates
SpecCurveUpdates ==
    InitPricing /\
    [][\/ \E block_number \in {0, MaxTimestamp} : \E token_balances \in CurveBalanceChoices :
            CurveAutoUpdate(block_number, token_balances)
       \/ \E i \in 0..(N_COINS - 1) : \E j \in (0..(N_COINS - 1)) \ {i} :
            \E dx \in UpdateAmounts : \E off \in {0, 1} : \E block_number \in {0, MaxTimestamp} :
                CurveExternalUpdate(i, j, dx,
                                    PredictedSwap(curve_balances, i, j, dx).out + off,
                                    block_number)]_vars

(***************************************************************************)
(* Updates of the V3 pool.  __init__ records _update_block and an archive  *)
(* holding the zero state under block 0 and pool.state under the update    *)
(* block (lines 226-234).  _state_lock is a threading.Lock (line 92),      *)
(* which the thread holding it cannot take a second time.                  *)
(***************************************************************************)
\* the numbers of a UniswapV3PoolState, as the archive keeps them
ArchivedState(p) ==
    [liquidity |-> p.liquidity, sqrt_price_x96 |-> p.sqrt_price_x96, tick |-> p.tick]

\* <<sqrt_price_x96, tick>> of slot0() and liquidity() of the contract, as
\* auto_update reads them
ChainSlot0Choices == { <<105, 0, 20>>, <<115, 1, 30>> }

\* V3LiquidityPool.auto_update(block_number); slot0 is what the chain answers
V3AutoUpdate(block_number, slot0) ==
    /\ ~v3_update.locked
    /\ v3_update.calls < MaxUpdates
    /\ IF block_number < v3_update.update_block
       THEN /\ v3_update' = [v3_update EXCEPT
                                !.calls = @ + 1,
                                !.last = [op |-> "auto_update", block_number |-> block_number,
                                          update |-> NoneObj,
                                          force |-> FALSE, exc |-> "ExternalUpdateError",
                                          ret |-> FALSE]]
            /\ UNCHANGED v3_pool
       ELSE LET _sqrt_price_x96 == slot0[1]
                _tick == slot0[2]
                _liquidity == slot0[3]
                updated == \/ v3_pool.sqrt_price_x96 # _sqrt_price_x96
                           \/ v3_pool.tick # _tick
                           \/ v3_pool.liquidity # _liquidity
                p == [v3_pool EXCEPT !.sqrt_price_x96 = _sqrt_price_x96,
                                     !.tick = _tick,
                                     !.liquidity = _liquidity]
            IN  /\ v3_pool' = p
                /\ v3_update' = [v3_update EXCEPT
                      !.calls = @ + 1,
                      !.notifications = IF updated THEN @ + 1 ELSE @,
                      !.archive = IF updated THEN (block_number :> ArchivedState(p)) @@ @ ELSE @,
                      !.update_block = block_number,
                      !.last = [op |-> "auto_update", block_number |-> block_number,
                                update |-> NoneObj,
                                force |-> FALSE, exc |-> None, ret |-> updated]]
    /\ UNCHANGED <<cycle_vars, v2_reserves, curve_balances, curve_state, calc_vars,
                   call_vars, chain_vars>>

\* is_valid_update_block without the comparison of the blocks
is_valid_update_block_Always(force, block_number, update_block) ==
    TRUE

\* is_valid_update_block of external_update (lines 841-848)
is_valid_update_block(force, block_number, update_block) ==
    IF force THEN TRUE ELSE block_number >= update_block

\* "(update_value := getattr(update, update_type, None)) and update_value !=
\* getattr(self, update_type)": None and 0 are both false
CarriesNewValue(update_value, current) ==
    /\ ~IsNothing(update_value)
    /\ Value(update_value) # 0
    /\ Value(update_value) # current

\* lines 912-917: the loop over "tick", "liquidity", "sqrt_price_x96"
SetUpdateValues(p, update) ==
    [p EXCEPT
       !.tick = IF CarriesNewValue(update.tick, @) THEN Value(update.tick) ELSE @,
       !.liquidity = IF CarriesNewValue(update.liquidity, @) THEN Value(update.liquidity) ELSE @,
       !.sqrt_price_x96 = IF CarriesNewValue(update.sqrt_price_x96, @)
                          THEN Value(update.sqrt_price_x96) ELSE @]

\* TickBitmap.flipTick: the word of the tick is in the bitmap
flipTick(tick_bitmap, tick, tick_spacing) ==
    LET pos == position(tick \div tick_spacing) IN
    [tick_bitmap EXCEPT ![pos[1]] = IF pos[2] \in @ THEN @ \ {pos[2]} ELSE @ \cup {pos[2]}]

\* liquidityGross of a tick of tick_data: as external_update last wrote it,
\* or as the chain gave it
TickGross(gross, tick) ==
    IF tick \in DOMAIN gross THEN gross[tick] ELSE Abs(CHAIN_TICK_DATA[tick])

\* lines 964-1003, for a tick whose word is in st.pool.tick_bitmap
\* (i = 0 for lower_tick, 1 for upper_tick)
UpdateLiquidityAtTick(st, tick, i, liquidity_delta) ==
    LET known == tick \in DOMAIN st.pool.tick_data
        tick_liquidity_net == IF known THEN st.pool.tick_data[tick] ELSE 0
        tick_liquidity_gross == IF known THEN TickGross(st.gross, tick) ELSE 0
        bitmap == IF known THEN st.pool.tick_bitmap
                  ELSE flipTick(st.pool.tick_bitmap, tick, TICK_SPACING)
        new_liquidity_net == IF i = 0 THEN tick_liquidity_net + liquidity_delta
                             ELSE tick_liquidity_net - liquidity_delta
        new_liquidity_gross == tick_liquidity_gross + liquidity_delta
    IN  IF new_liquidity_gross = 0
        THEN [st EXCEPT
                !.pool.tick_data = [t \in (DOMAIN @) \ {tick} |-> @[t]],
                !.pool.tick_bitmap = flipTick(bitmap, tick, TICK_SPACING),
                !.gross = [t \in (DOMAIN @) \ {tick} |-> @[t]]]
        ELSE [st EXCEPT
                !.pool.tick_data = (tick :> new_liquidity_net) @@ @,
                !.pool.tick_bitmap = bitmap,
                !.gross = (tick :> new_liquidity_gross) @@ @]

\* lines 939-1003: one pass of "for i, tick in enumerate([lower_tick,
\* upper_tick])".  A sparse pool that lacks the word calls
\* _update_tick_data_at_word, which takes _state_lock (line 315) while
\* external_update holds it (line 909): the call never returns.
LiquidityTick(st, tick, i, liquidity_delta) ==
    IF st.exc # None THEN st
    ELSE LET tick_word == _get_tick_bitmap_position(tick)[1] IN
         IF tick_word \in DOMAIN st.pool.tick_bitmap
         THEN UpdateLiquidityAtTick(st, tick, i, liquidity_delta)
         ELSE IF st.pool.sparse
         THEN [st EXCEPT !.exc = "deadlock"]
         ELSE UpdateLiquidityAtTick(
                  [st EXCEPT !.pool.tick_bitmap = (tick_word :> {}) @@ @],
                  tick, i, liquidity_delta)

\* lines 919-1003: "if update.liquidity_change and
\* update.liquidity_change[0] != 0"
ApplyLiquidityChange(st, liquidity_change, force) ==
    IF liquidity_change = <<>> \/ liquidity_change[1] = 0 THEN st
    ELSE LET liquidity_delta == liquidity_change[1]
             lower_tick == liquidity_change[2]
             upper_tick == liquidity_change[3]
             in_range == lower_tick <= st.pool.tick /\ st.pool.tick < upper_tick /\ ~force
             adjusted == IF in_range
                         THEN [st EXCEPT !.pool.liquidity = @ + liquidity_delta,
                                         !.updated = TRUE]
                         ELSE [st EXCEPT !.updated = TRUE]
         IN  IF in_range /\ adjusted.pool.liquidity < 0
             THEN [adjusted EXCEPT !.exc = "AssertionError"]
             ELSE LiquidityTick(LiquidityTick(adjusted, lower_tick, 0, liquidity_delta),
                                upper_tick, 1, liquidity_delta)

\* the body of external_update under the lock, up to line 1003
UpdatedPool(p, gross, update, force) ==
    ApplyLiquidityChange(
        [pool |-> SetUpdateValues(p, update), gross |-> gross, exc |-> None,
         updated |-> \/ CarriesNewValue(update.tick, p.tick)
                     \/ CarriesNewValue(update.liquidity, p.liquidity)
                     \/ CarriesNewValue(update.sqrt_price_x96, p.sqrt_price_x96)],
        update.liquidity_change, force)

\* <<tick, liquidity, sqrt_price_x96, liquidity_change>> of the updates made
UpdateValueChoices ==
    { <<Nothing, Nothing, Nothing, <<>>>>,
      <<Nothing, Some(0), Nothing, <<>>>>,
      <<Nothing, Some(30), Nothing, <<>>>>,
      <<Some(1), Nothing, Some(115), <<>>>>,
      <<Some(0), Nothing, Some(105), <<0, -2, 2>>>>,
      <<Nothing, Nothing, Nothing, <<10, 0, 2>>>>,
      <<Nothing, Nothing, Nothing, <<-20, -2, 2>>>>,
      <<Nothing, Some(30), Nothing, <<10, 2, 4>>>> }

UniswapV3PoolExternalUpdate(block_number, values) ==
    [block_number |-> block_number, tick |-> values[1], liquidity |-> values[2],
     sqrt_price_x96 |-> values[3], liquidity_change |-> values[4]]

\* what external_update(update, force), having done st, leaves
ExternallyUpdated(update, force, st) ==
    /\ v3_pool' = st.pool
    /\ v3_update' = [v3_update EXCEPT
          !.calls = @ + 1,
          !.gross = st.gross,
          !.locked = st.exc = "deadlock",
          !.archive = IF st.exc = None /\ st.updated
                      THEN (update.block_number :> ArchivedState(st.pool)) @@ @ ELSE @,
          !.notifications = IF st.exc = None /\ st.updated THEN @ + 1 ELSE @,
          !.update_block = IF st.exc = None /\ st.updated /\ ~force
                           THEN update.block_number ELSE @,
          !.last = [op |-> "external_update", block_number |-> update.block_number,
                    update |-> update, force |-> force, exc |-> st.exc,
                    ret |-> st.exc = None /\ st.updated]]

\* V3LiquidityPool.external_update(update=UniswapV3PoolExternalUpdate(
\* block_number, values), force=force); the block number is the update's
V3ExternalUpdate(block_number, values, force) ==
    /\ ~v3_update.locked
    /\ v3_update.calls < MaxUpdates
    /\ IF ~is_valid_update_block(force, block_number, v3_update.update_block)
       THEN /\ v3_update' = [v3_update EXCEPT
                                !.calls = @ + 1,
                                !.last = [op |-> "external_update",
                                          block_number |-> block_number,
                                          update |-> UniswapV3PoolExternalUpdate(block_number,
                                                                                 values),
                                          force |-> force, exc |-> "ExternalUpdateError",
                                          ret |-> FALSE]]
            /\ UNCHANGED v3_pool
       ELSE ExternallyUpdated(UniswapV3PoolExternalUpdate(block_number, values), force,
                              UpdatedPool(v3_pool, v3_update.gross,
                                          UniswapV3PoolExternalUpdate(block_number, values),
                                          force))
    /\ UNCHANGED <<cycle_vars, v2_reserves, curve_balances, curve_state, calc_vars,
                   call_vars, chain_vars>>

\* the V3 pool on its own: any sequence of updates
SpecV3Updates ==
    InitPricing /\
    [][\/ \E block_number \in 0..MaxTimestamp : \E slot0 \in ChainSlot0Choices :
            V3AutoUpdate(block_number, slot0)
       \/ \E block_number \in 0..MaxTimestamp : \E values \in UpdateValueChoices :
            \E force \in BOOLEAN : V3ExternalUpdate(block_number, values, force)]_vars

(***************************************************************************)
(* The swap amounts _build_amounts_out appends for a Curve leg (lines      *)
(* 329-348), for the legs the constructor can derive: token_in and         *)
(* token_out are two coins of pool.tokens.  The pool's quote is an input.  *)
(***************************************************************************)
BuildCurveLeg(pool, token_in, token_out, _token_in_quantity, _token_out_quantity) ==
    /\ build = NoneObj
    /\ LET vector == CurveStableSwapPoolVector(token_in, token_out,
                                               IndexOf(PoolTokens(pool), token_in) - 1,
                                               IndexOf(PoolTokens(pool), token_out) - 1)
       IN  build' = [x |-> _token_in_quantity, exc |-> None,
                     amounts |-> << SwapAmountsFor(pool, vector, _token_in_quantity,
                                                   _token_out_quantity) >>,
                     legs |-> << Leg(pool, _token_in_quantity, None,
                                     _token_out_quantity) >>]
    /\ UNCHANGED <<cycle_vars, pool_vars, pc, override_state, state_overrides, nprobes,
                   opt_x, opt_fun, all_failed, last_probe, outcome, result, call_vars,
                   chain_vars>>

SpecAmounts ==
    InitPricing /\
    [][\E pool \in CurvePools \cup CurveMetapools : \E pair \in TokenPairs(pool) :
         \E _token_in_quantity \in 1..MaxInput : \E _token_out_quantity \in 1..MaxInput :
            BuildCurveLeg(pool, pair[1], pair[2], _token_in_quantity,
                          _token_out_quantity)]_vars

(***************************************************************************)
(* The chain head.                                                         *)
(***************************************************************************)
\* a new block is mined: w3.eth.get_block("latest")["timestamp"] moves on
NewBlock ==
    /\ block_timestamp < MaxTimestamp
    /\ block_timestamp' = block_timestamp + 1
    /\ UNCHANGED <<cycle_vars, pool_vars, calc_vars, call_vars, curve_ramp>>

\* cycles through the Curve pool, which may be ramping A, while blocks are mined
InitChain ==
    /\ InitWith(CurveRampChoices)
    /\ InCycle(swap_pools, "curve_pool")
    /\ curve_balances = <<60, 60, 60>>

SpecChain == InitChain /\ [][Next \/ NewBlock]_vars

(***************************************************************************)
(* Properties.                                                             *)
(***************************************************************************)
LastOf(seq) == seq[Len(seq)]
HasZeroLeg(legs) == \E k \in 1..Len(legs) : legs[k].exc = None /\ legs[k].out = 0
WellFormed(overrides) == _sort_overrides(overrides).exc = None

\* C1: every successfully constructed cycle has one swap vector per pool, in
\* pool order, each vector's token_out is the next vector's token_in, and the
\* last vector's token_out is the cycle's input token (the path is closed).
C1_ClosedPath ==
    cycle_status = "constructed" =>
        /\ Len(swap_vectors) = Len(swap_pools)
        /\ \A k \in 1..Len(swap_vectors) :
              {swap_vectors[k].token_in, swap_vectors[k].token_out}
                  \subseteq Range(PoolTokens(swap_pools[k]))
        /\ \A k \in 1..(Len(swap_vectors) - 1) :
              swap_vectors[k].token_out = swap_vectors[k + 1].token_in
        /\ LastOf(swap_vectors).token_out = input_token

\* C2: with well-formed overrides, calculate() ends by returning a result or
\* by raising ArbitrageError; no other exception leaves it.
C2_ResultOrArbitrageError ==
    (pc = "done" /\ WellFormed(override_state)) => outcome \in {"result", "ArbitrageError"}

\* C3: every result calculate() returns has profit_amount > 0.
C3_ProfitPositive ==
    outcome = "result" => result.profit_amount > 0

\* the quote a pool gives when `state` stands in the place of its live state
QuoteFromState(pool, vector, quantity, state) ==
    CASE PoolType(pool) = "LiquidityPool" ->
            V2_calculate_tokens_out_from_tokens_in(
                pool, <<state.reserves_token0, state.reserves_token1>>,
                vector.token_in, quantity, NoneObj)
      [] PoolType(pool) = "CurveStableswapPool" ->
            Curve_calculate_tokens_out_from_tokens_in(
                pool, state.balances, vector.token_in, vector.token_out, quantity, NoneObj)
      [] PoolType(pool) = "V3LiquidityPool" ->
            V3_calculate_tokens_out_from_tokens_in(
                pool,
                [sparse |-> v3_pool.sparse, liquidity |-> state.liquidity,
                 sqrt_price_x96 |-> state.sqrt_price_x96, tick |-> state.tick,
                 tick_bitmap |-> Value(state.tick_bitmap),
                 tick_data |-> Value(state.tick_data)],
                vector.token_in, quantity, NoneObj)

LegFromOverride(leg, vector) ==
    Get(state_overrides, leg.pool) # NoneObj =>
        LET q == QuoteFromState(leg.pool, vector, leg.amount_in,
                                Get(state_overrides, leg.pool))
        IN  leg.exc = q.exc /\ leg.out = q.out

\* C4: a pool that has an override is quoted, in every probe and in the
\* builder, from the override state in the place of its live state, whichever
\* of the three types the pool is.
C4_OverrideReplacesLiveState ==
    /\ (last_probe # NoneObj /\ pc # "hung") =>
          \A k \in 1..Len(last_probe.legs) : LegFromOverride(last_probe.legs[k], swap_vectors[k])
    /\ (build # NoneObj /\ pc # "hung") =>
          \A k \in 1..Len(build.legs) : LegFromOverride(build.legs[k], swap_vectors[k])

\* C5: no step of a calculation (a probe, or the building of the swap
\* amounts) changes a pool's state or a supplied override state.
C5_NoMutation ==
    [][pc = "probing" =>
          /\ v2_reserves' = v2_reserves
          /\ curve_balances' = curve_balances
          /\ v3_pool' = v3_pool
          /\ state_overrides' = state_overrides]_vars

\* C6: a returned result's input_amount is the floor of the optimizer's x, and
\* its profit_amount is exactly the cycle's output for input_amount minus
\* input_amount.
C6_ExactProfit ==
    outcome = "result" =>
        /\ result.input_amount = opt_x
        /\ result.profit_amount = LastOf(build.legs).out - result.input_amount

\* the swap amounts of leg k say what the leg's quote was
AmountsOfLeg(amounts, leg, vector) ==
    CASE amounts.kind = "UniswapV2PoolSwapAmounts" ->
            amounts.amounts = IF vector.zero_for_one THEN <<0, leg.out>> ELSE <<leg.out, 0>>
      [] amounts.kind = "UniswapV3PoolSwapAmounts" ->
            amounts.amount_specified = leg.amount_in
      [] amounts.kind = "CurveStableSwapPoolSwapAmounts" ->
            amounts.amount_in = leg.amount_in /\ amounts.min_amount_out = leg.out

\* the evaluator's chain quoted every pool and every quote was non-zero
ChainYields(e) ==
    /\ e.exc = None
    /\ Len(e.legs) = Len(swap_pools)
    /\ \A k \in 1..Len(e.legs) : e.legs[k].exc = None /\ e.legs[k].out # 0

BuilderAgrees(b, e) ==
    /\ (b.exc = None) <=> ChainYields(e)
    /\ b.exc = None =>
          /\ Len(b.amounts) = Len(swap_pools)
          /\ b.legs[1].amount_in = b.x
          /\ \A k \in 1..(Len(b.legs) - 1) : b.legs[k + 1].amount_in = b.legs[k].out
          /\ \A k \in 1..Len(b.legs) :
                /\ b.legs[k].pool = swap_pools[k]
                /\ AmountsOfLeg(b.amounts[k], b.legs[k], swap_vectors[k])
          /\ LastOf(b.legs).out = e.out

\* C7: when _build_amounts_out runs, it succeeds exactly when arb_profit's
\* chain, run for the same amount on the same pool and override state, gets a
\* non-zero quote from every pool; it then returns one swap amount per pool in
\* pool order, leg 0 fed the amount, leg i fed leg i-1's output, and the last
\* leg's output is arb_profit's output for the amount.
C7_BuilderQuotesAsEvaluator ==
    [][(build = NoneObj /\ build' # NoneObj /\ build'.exc # "diverges") =>
          BuilderAgrees(build',
                        arb_profit(swap_pools, swap_vectors, opt_x,
                                   CalcEnv(v3_pool, state_overrides),
                                   v2_reserves, curve_balances))]_vars

\* C7 witness: the builder has returned the swap amounts of a three-pool cycle
C7_Witness ==
    /\ build # NoneObj
    /\ build.exc = None
    /\ Len(build.amounts) = 3
    /\ outcome = "result"

\* C8: calculate() never hangs; it makes a bounded number of probes, and when
\* every probe failed it ends with ArbitrageError.
C8_Terminates ==
    /\ pc # "hung"
    /\ nprobes <= MaxProbes
    /\ (pc = "done" /\ nprobes >= 1 /\ all_failed /\ last_probe.exc = None) =>
          outcome = "ArbitrageError"

\* C9: a quote of 0 at any pool makes the amount a failure: the probe ends with
\* output 0 and returns the float of x (profit -x), the builder raises
\* ArbitrageError, and no returned result has a leg whose output is 0.
C9_ZeroQuoteFails ==
    /\ (last_probe # NoneObj /\ HasZeroLeg(last_probe.legs)) =>
          /\ last_probe.exc = None
          /\ last_probe.out = 0
          /\ last_probe.fun = float(last_probe.x)
    /\ (build # NoneObj /\ HasZeroLeg(build.legs)) =>
          /\ build.exc = "ArbitrageError"
          /\ outcome = "ArbitrageError"
    /\ outcome = "result" =>
          /\ ~HasZeroLeg(build.legs)
          /\ \A k \in 1..Len(result.swap_amounts) :
                LET a == result.swap_amounts[k] IN
                CASE a.kind = "UniswapV2PoolSwapAmounts" -> a.amounts # <<0, 0>>
                  [] a.kind = "UniswapV3PoolSwapAmounts" -> a.amount_specified # 0
                  [] a.kind = "CurveStableSwapPoolSwapAmounts" ->
                        a.amount_in # 0 /\ a.min_amount_out # 0

\* C9 witness: a probe met a zero quote in the middle of the chain, and the
\* builder met a zero quote and raised
C9_Witness ==
    /\ last_probe # NoneObj
    /\ Len(last_probe.legs) >= 2
    /\ last_probe.legs[1].exc = None /\ last_probe.legs[1].out = 0
    /\ build # NoneObj
    /\ HasZeroLeg(build.legs)
    /\ outcome = "ArbitrageError"

OverrideTypes(overrides) ==
    IF IsNothing(overrides) THEN {}
    ELSE {Value(overrides)[k][2].type : k \in 1..Len(Value(overrides))}
PoolStateTypes == {"CurveStableswapPoolState", "UniswapV2PoolState", "UniswapV3PoolState"}

\* the map from pool to state, given which types count as simulation results
ExpectedMap(overrides, simulation_types) ==
    IF IsNothing(overrides) THEN <<>>
    ELSE LET pairs == Value(overrides) IN
         [pool \in {pairs[k][1] : k \in 1..Len(pairs)} |->
            LET k == CHOOSE m \in 1..Len(pairs) :
                        pairs[m][1] = pool /\ \A n \in (m + 1)..Len(pairs) : pairs[n][1] # pool
            IN  IF pairs[k][2].type \in simulation_types
                THEN pairs[k][2].future_state ELSE pairs[k][2]]

SortedAs(simulation_types) ==
    pc # "idle" =>
        IF OverrideTypes(override_state) \subseteq PoolStateTypes \cup simulation_types
        THEN /\ outcome # "ValueError"
             /\ (pc = "probing" /\ nprobes = 0) =>
                   state_overrides = ExpectedMap(override_state, simulation_types)
        ELSE /\ pc = "done" /\ outcome = "ValueError"
             /\ nprobes = 0 /\ last_probe = NoneObj /\ build = NoneObj

\* C10: _sort_overrides gives the empty map for absent or empty overrides, maps
\* a pool to the state given for it, and maps a pool given a Uniswap V2 or V3
\* simulation result to the result's future_state; any other value, a Curve
\* simulation result among them, raises ValueError before any pricing call.
C10_SortOverrides ==
    SortedAs({"UniswapV2PoolSimulationResult", "UniswapV3PoolSimulationResult"})

\* C10 as claimed: a simulation result of any of the three pool types maps the
\* pool to its future_state.
C10_AnyPoolType ==
    SortedAs({"UniswapV2PoolSimulationResult", "UniswapV3PoolSimulationResult",
              "CurveStableswapPoolSimulationResult"})

\* C10 witness: a calculation has started on overrides that hold a simulation
\* result, which the map has replaced by its future_state
C10_Witness ==
    /\ pc = "probing" /\ nprobes = 0
    /\ "UniswapV2PoolSimulationResult" \in OverrideTypes(override_state)
    /\ state_overrides["v2_weth_dai"] = V2Override

IsTwoToken(pool) == PoolType(pool) \in {"LiquidityPool", "V3LiquidityPool"}
OtherToken(pool, token) == IF token = Token0(pool) THEN Token1(pool) ELSE Token0(pool)

\* the token that reaches pool k (1-based) through two-token pools 1..k-1, or
\* "none" when an earlier pool is not a two-token pool holding the token
RECURSIVE RunningToken(_)
RunningToken(k) ==
    IF k = 1 THEN input_token
    ELSE LET before == RunningToken(k - 1) IN
         IF IsTwoToken(swap_pools[k - 1]) /\ before \in Range(PoolTokens(swap_pools[k - 1]))
         THEN OtherToken(swap_pools[k - 1], before)
         ELSE "none"

\* C11: construction raises ValueError and leaves no cycle when the input
\* token is neither token of the first pool or the previous vector's token_out
\* is neither token of a later two-token pool; in a constructed cycle the
\* vector of a two-token pool takes the matching token as token_in, the other
\* token as token_out, and has zero_for_one exactly when token_in is token0.
C11_TwoTokenVectors ==
    /\ \A k \in 1..Len(swap_pools) :
          (/\ cycle_status # "new"
           /\ IsTwoToken(swap_pools[k])
           /\ RunningToken(k) # "none"
           /\ RunningToken(k) \notin Range(PoolTokens(swap_pools[k])))
          => /\ cycle_status = "ValueError"
             /\ swap_vectors = <<>>
             /\ IsNothing(pool_states)
    /\ cycle_status = "constructed" =>
          \A k \in 1..Len(swap_pools) :
              IsTwoToken(swap_pools[k]) =>
                 LET v == swap_vectors[k]
                     running == IF k = 1 THEN input_token ELSE swap_vectors[k - 1].token_out
                 IN  /\ v.token_in = running
                     /\ v.token_in \in Range(PoolTokens(swap_pools[k]))
                     /\ v.token_out = OtherToken(swap_pools[k], v.token_in)
                     /\ v.zero_for_one = (v.token_in = Token0(swap_pools[k]))

\* C11 witness: the second pool holds neither token the first vector ends on
C11_Witness ==
    /\ cycle_status = "ValueError"
    /\ Len(swap_pools) = 2
    /\ IsTwoToken(swap_pools[1]) /\ IsTwoToken(swap_pools[2])
    /\ input_token \in Range(PoolTokens(swap_pools[1]))
    /\ RunningToken(2) \notin Range(PoolTokens(swap_pools[2]))

NoCycle == swap_vectors = <<>> /\ IsNothing(pool_states)

\* C12: a Curve pool is accepted at index 1 only; elsewhere construction
\* raises ValueError.  At index 1 its token_in is the previous vector's
\* token_out and its token_out the one token it shares with the next pool;
\* with no next pool, or not exactly one shared token, construction raises
\* ValueError and leaves no cycle.
C12_CurveOnlyAtIndexOne ==
    /\ \A k \in 1..Len(swap_pools) :
          (/\ cycle_status # "new"
           /\ PoolType(swap_pools[k]) = "CurveStableswapPool"
           /\ RunningToken(k) # "none")
          => IF k # 2
             THEN cycle_status = "ValueError" /\ NoCycle
             ELSE IF Len(swap_pools) < 3
                     \/ Cardinality(SharedTokens(swap_pools[2], swap_pools[3])) # 1
             THEN cycle_status = "ValueError" /\ NoCycle
             ELSE cycle_status = "constructed" =>
                     /\ swap_vectors[2].token_in = swap_vectors[1].token_out
                     /\ {swap_vectors[2].token_out} = SharedTokens(swap_pools[2], swap_pools[3])

\* C13: a pricing call of a V2, V3 or Curve pool with a zero or negative
\* token_in_quantity raises, and returns no quantity.
C13_NonPositiveFails ==
    (quote # NoneObj /\ quote.quantity <= 0) => quote.exc # None

\* C14: the evaluator is deterministic: a probe of the amount the previous
\* probe was given, made on the pool and override state the previous probe
\* started from (the cycle and the overrides are those of the same
\* calculation), returns what the previous probe returned, whatever happened
\* in between (a new chain head).
C14_Deterministic ==
    [][(/\ last_probe # NoneObj /\ nprobes' = nprobes + 1
        /\ last_probe'.x = last_probe.x
        /\ last_probe'.pre = last_probe.pre)
       => /\ last_probe'.exc = last_probe.exc
          /\ last_probe'.out = last_probe.out
          /\ last_probe'.fun = last_probe.fun
          /\ last_probe'.legs = last_probe.legs]_vars

\* C15: calculate_with_pool raises ValueError, and submits nothing, when a V3
\* pool of the cycle has a sparse bitmap; otherwise it submits exactly the
\* task _calculate(override_state) to the executor.
C15_SparseNeverSubmitted ==
    with_pool =>
        IF \E i \in 1..Len(swap_pools) : PoolType(swap_pools[i]) = "V3LiquidityPool" /\ v3_pool.sparse
        THEN executor = <<>> /\ pc = "done" /\ outcome = "ValueError"
        ELSE executor = <<[fn |-> "_calculate", override_state |-> override_state]>>

C15_Witness ==
    /\ with_pool /\ v3_pool.sparse /\ InCycle(swap_pools, "v3_weth_usdt")
    /\ executor = <<>> /\ outcome = "ValueError"

\* the swap instructions of a payload list, and the others
IsSwapPayload(p) ==
    p.calldata[1] \in {"swap(uint256,uint256,address,bytes)",
                       "swap(address,bool,int256,uint160,bytes)",
                       "exchange(int128,int128,uint256,uint256)"}
SwapPayloads(list) == SelectSeq(list, IsSwapPayload)

\* the instruction at position k is the leading transfer of swap_amount of the
\* input token to the first pool, a V2 pool
IsLeadingTransfer(call, k) ==
    /\ k = 1
    /\ PoolType(swap_pools[1]) = "LiquidityPool"
    /\ call.payloads[k].address = input_token
    /\ call.payloads[k].calldata[1] = "transfer(address,uint256)"
    /\ call.payloads[k].calldata[2] = <<swap_pools[1], call.swap_amount>>

\* the Curve leg's input is not covered by the allowance the caller holds
ApprovalNeeded(call, amount_in) ==
    IF call.infinite_approval THEN call.current_approval # MAX_UINT256
    ELSE call.current_approval < amount_in

\* the instruction at position k is an approve, needed, placed immediately
\* before the exchange of the Curve pool it approves
IsApproveBeforeExchange(call, k) ==
    /\ call.payloads[k].calldata[1] = "approve(address,uint256)"
    /\ k < Len(call.payloads)
    /\ call.payloads[k + 1].calldata[1] = "exchange(int128,int128,uint256,uint256)"
    /\ PoolType(call.payloads[k + 1].address) = "CurveStableswapPool"
    /\ call.payloads[k].calldata[2][1] = call.payloads[k + 1].address
    /\ ApprovalNeeded(call, call.payloads[k + 1].calldata[2][3])

C17_EmptyAmountsRaise ==
    (payloads # NoneObj /\ payloads.pool_swap_amounts = <<>>) =>
        payloads.exc = "ArbitrageError" /\ payloads.payloads = <<>>

C17_Witness ==
    /\ payloads # NoneObj /\ payloads.pool_swap_amounts = <<>>
    /\ payloads.exc = "ArbitrageError"
    /\ PoolType(swap_pools[1]) = "LiquidityPool"

\* what a cached state holds: the dicts of a V3 state are the pool's own
CachedValue(state) ==
    IF state.type = "UniswapV3PoolState"
    THEN [state EXCEPT !.tick_bitmap = v3_pool.tick_bitmap, !.tick_data = v3_pool.tick_data]
    ELSE state
\* the cache, entry by entry
CacheHolds(pool) ==
    IF IsNothing(pool_states) \/ pool \notin DOMAIN Value(pool_states) THEN NoneObj
    ELSE CachedValue(Value(pool_states)[pool])

\* C18: when a pool of a constructed cycle, of whichever type, notifies the
\* cycle, the cache entry of that pool becomes the pool's current state and
\* nothing else of the cycle changes.
C18_NotifyCachesState ==
    [][(cycle_status = "constructed" /\ notified' # notified) =>
          /\ \A pool \in Pools :
                IF pool = notified'.publisher
                THEN CacheHolds(pool)' = CachedValue(PoolState(pool))'
                ELSE CacheHolds(pool)' = CacheHolds(pool)
          /\ UNCHANGED <<swap_pools, input_token, max_input, cycle_status, swap_vectors,
                         subscribers>>]_vars

\* C19: the steps of a calculation leave the cache, and what its entries
\* hold, as the notifications made them; the cache object itself is written
\* by the notification handler only.
C19_CacheOnlyNotified ==
    [][/\ (cycle_status = "constructed" /\ pool_states' # pool_states) => notified' # notified
       /\ (pc' # pc \/ calc_vars' # calc_vars) =>
             \A pool \in Pools : CacheHolds(pool)' = CacheHolds(pool)]_vars

\* C20: the underlying flag of a Curve swap amount is true exactly when the
\* pool is a metapool and the leg trades a token that is not a coin of the
\* pool itself; it is false when both tokens are coins of the pool, and for
\* every leg of a pool that is not a metapool.
C20_UnderlyingFlag ==
    build # NoneObj =>
        \A k \in 1..Len(build.amounts) :
            build.amounts[k].kind = "CurveStableSwapPoolSwapAmounts" =>
                build.amounts[k].underlying =
                    (/\ build.legs[k].pool \in CurveMetapools
                     /\ ~(/\ InSeq(PoolTokens(build.legs[k].pool), build.amounts[k].token_in)
                          /\ InSeq(PoolTokens(build.legs[k].pool), build.amounts[k].token_out)))

\* the address a V2 or V3 swap instruction sends its output to
Recipient(p) ==
    IF p.calldata[1] = "swap(uint256,uint256,address,bytes)" THEN p.calldata[2][3]
    ELSE p.calldata[2][1]

\* C21: the swap instruction of a V2 or V3 leg sends its output to the next
\* pool's address exactly when the next pool is a V2 pool, and to from_address
\* when the next pool is a V3 or Curve pool or the leg is the last one.  (A
\* Curve exchange carries no destination.)
C21_Destinations ==
    (payloads # NoneObj /\ payloads.exc = None) =>
        \A i \in 1..Len(swap_pools) :
            PoolType(swap_pools[i]) # "CurveStableswapPool" =>
                Recipient(SwapPayloads(payloads.payloads)[i]) =
                    IF i < Len(swap_pools) /\ PoolType(swap_pools[i + 1]) = "LiquidityPool"
                    THEN swap_pools[i + 1]
                    ELSE payloads.from_address

\* C22: every amount the optimizer passes into the first pool, and the
\* input_amount of every result, is an integer of 1..max_input, where
\* max_input is the constructor's argument, or the default when it was None.
C22_AmountsWithinBounds ==
    /\ ~IsNothing(max_input) => Value(max_input) \in {MaxInput, DEFAULT_MAX_INPUT}
    /\ last_probe # NoneObj =>
          /\ last_probe.x \in 1..Value(max_input)
          /\ last_probe.legs # <<>> => last_probe.legs[1].amount_in = last_probe.x
    /\ outcome = "result" => result.input_amount \in 1..Value(max_input)

C22_Witness ==
    /\ max_input = Some(DEFAULT_MAX_INPUT)
    /\ outcome = "result" /\ result.input_amount = DEFAULT_MAX_INPUT - 1
    /\ last_probe.x = DEFAULT_MAX_INPUT - 1

\* the input of the V2 swap of leg i has been delivered to the pool: by the
\* leading transfer, or by the swap of leg i - 1 sending its output there
Delivered(call, i) ==
    IF i = 1
    THEN /\ call.payloads[1].calldata[1] = "transfer(address,uint256)"
         /\ call.payloads[1].calldata[2][1] = swap_pools[1]
    ELSE /\ PoolType(swap_pools[i - 1]) # "CurveStableswapPool"
         /\ Recipient(SwapPayloads(call.payloads)[i - 1]) = swap_pools[i]

\* C23: in the list generate_payloads returns, every V2 swap comes after an
\* instruction that delivers that leg's input tokens to the V2 pool.
C23_V2InputDelivered ==
    (payloads # NoneObj /\ payloads.exc = None) =>
        \A i \in 1..Len(swap_pools) :
            PoolType(swap_pools[i]) = "LiquidityPool" => Delivered(payloads, i)

\* C24: after any sequence of auto_update and external_update calls on the
\* Curve pool, pool.state.balances equals pool.balances.
C24_StateIsCurrent ==
    StateBalances = curve_balances

\* C25: across auto_update and non-forced external_update calls on the V3
\* pool the recorded update block never decreases: a call for a block older
\* than the recorded one raises ExternalUpdateError and leaves the state, the
\* archive, the update block and the notifications made as they were.
C25_UpdateBlockNeverDecreases ==
    [][/\ v3_update'.update_block >= v3_update.update_block
       /\ \A call \in {v3_update'.last} :
             (/\ v3_update'.calls # v3_update.calls
              /\ ~call.force
              /\ call.block_number < v3_update.update_block)
             => /\ call.exc = "ExternalUpdateError"
                /\ v3_pool' = v3_pool
                /\ v3_update'.archive = v3_update.archive
                /\ v3_update'.update_block = v3_update.update_block
                /\ v3_update'.notifications = v3_update.notifications
                /\ v3_update'.gross = v3_update.gross]_vars

\* C25 witness: the pool has moved on to a later block, and an
\* external_update for an older block was rejected
C25_Witness ==
    /\ v3_update.calls > 0
    /\ v3_update.update_block > 1
    /\ v3_update.last.op = "external_update"
    /\ ~v3_update.last.force
    /\ v3_update.last.block_number < v3_update.update_block
    /\ v3_update.last.exc = "ExternalUpdateError"

\* the update carries a value for the field, and it is not the pool's
Differs(update_value, current) ==
    ~IsNothing(update_value) /\ Value(update_value) # current

\* C26: an external_update that returns and whose update carries a tick,
\* liquidity or sqrt_price_x96 different from the pool's (0 included) records
\* the value, returns True, archives the new state under the update's block
\* and notifies; it returns False only when no value differs and the update
\* has no liquidity change.
C26_ExternalUpdateRecords ==
    [][\A call \in {v3_update'.last} :
         (/\ v3_update'.calls # v3_update.calls
          /\ call.op = "external_update"
          /\ call.exc = None)
         => /\ (\/ Differs(call.update.tick, v3_pool.tick)
                \/ Differs(call.update.liquidity, v3_pool.liquidity)
                \/ Differs(call.update.sqrt_price_x96, v3_pool.sqrt_price_x96))
               => /\ call.ret
                  /\ Differs(call.update.tick, v3_pool.tick)
                        => v3_pool'.tick = Value(call.update.tick)
                  /\ Differs(call.update.sqrt_price_x96, v3_pool.sqrt_price_x96)
                        => v3_pool'.sqrt_price_x96 = Value(call.update.sqrt_price_x96)
                  /\ (/\ Differs(call.update.liquidity, v3_pool.liquidity)
                      /\ call.update.liquidity_change = <<>>)
                        => v3_pool'.liquidity = Value(call.update.liquidity)
                  /\ v3_update'.archive[call.block_number] = ArchivedState(v3_pool')
                  /\ v3_update'.notifications = v3_update.notifications + 1
            /\ ~call.ret
               => /\ ~Differs(call.update.tick, v3_pool.tick)
                  /\ ~Differs(call.update.liquidity, v3_pool.liquidity)
                  /\ ~Differs(call.update.sqrt_price_x96, v3_pool.sqrt_price_x96)
                  /\ \/ call.update.liquidity_change = <<>>
                     \/ call.update.liquidity_change[1] = 0
                  /\ v3_update'.notifications = v3_update.notifications]_vars

\* C27: every quote the builder accepts as a leg's output and hands to the
\* next pool is strictly positive, and so is every input and output amount of
\* the legs of a returned list.
C27_PositiveLegs ==
    build # NoneObj =>
        /\ \A k \in 1..(Len(build.legs) - 1) :
              build.legs[k].out > 0 /\ build.legs[k + 1].amount_in > 0
        /\ build.exc = None =>
              \A k \in 1..Len(build.legs) :
                 build.legs[k].amount_in > 0 /\ build.legs[k].out > 0

\* the tick search of the V3 quote of a leg never ended
SearchDiverges(legs) ==
    \E k \in 1..Len(legs) :
       PoolType(legs[k].pool) = "V3LiquidityPool" /\ legs[k].exc = "diverges"

\* C28: every V3 quote terminates: in no probe and in no build does the tick
\* search of a V3 leg repeat forever, whatever the pool (sparse or complete)
\* and whatever the override.
C28_V3QuoteTerminates ==
    /\ last_probe # NoneObj => ~SearchDiverges(last_probe.legs)
    /\ build # NoneObj => ~SearchDiverges(build.legs)

\* C29: whenever the cycle is a subscriber of a pool its pool_states exists,
\* and no notify call ends with an exception.
C29_NotifyHandled ==
    /\ \A pool \in Pools : subscribers[pool] => ~IsNothing(pool_states)
    /\ notified # NoneObj => notified.exc = None

\* C30: when the constructor raised, no pool has the cycle among its
\* subscribers.
C30_FailedConstructionUnsubscribed ==
    cycle_status \notin {"new", "constructing", "constructed"} =>
        \A pool \in Pools : ~subscribers[pool]
====
